---- MODULE Spec2Model ----
(***************************************************************************)
(* A model of the news relevance-and-impact scoring pipeline of the        *)
(* stock-news dashboard: NewsAnalyzer (src/news_analyzer.py),              *)
(* SentimentAnalyzer (src/sentiment_analyzer.py), and the entry points of  *)
(* MarketData (src/market_data.py) as the page script (src/main.py) calls  *)
(* and consumes them.                                                      *)
(*                                                                         *)
(* Texts are sequences of words.  A phrase is a sequence of words, and     *)
(* Python's substring test `phrase in text` is the contiguous match of     *)
(* the phrase's words in the text, a phrase's outer words being allowed    *)
(* to sit inside longer words ("gains" is in "against").                   *)
(***************************************************************************)
EXTENDS Integers, Sequences, FiniteSets, TLC

\* ------------------------------------------------------------------ bounds

\* The longest article list a news-search response carries in the model.
MaxArticles == 5

\* The longest article list a response to analyze_market_sentiment carries.
MaxSentimentArticles == 4

\* The most relevant articles the confidence is computed for on its own.
MaxRelevant == 12

\* The longest symbol list get_market_mood is called with.
MaxSymbols == 3

\* The most positions the portfolio of a page run holds.
MaxHoldings == 4

\* ------------------------------------------------------- program constants

\* `if len(df) < 30` in prepare_features
MinRows == 30
\* `rolling(window=20)` in prepare_features, the longest window
LongWindow == 20
\* `for attempt in range(3)` in get_stock_data
MaxAttempts == 3
\* `max_tweets: int = 100` in analyze_social_sentiment
MaxTweets == 100
\* timedelta(days=7) in _is_relevant_news
RecencyDays == 7
\* `return relevant_keywords >= 2`
MinKeywords == 2
\* `articles[:4]` in fetch_relevant_news
MaxProcessed == 4

\* -------------------------------------------------------------------- text

\* str.lower() on one word
Lower(w) ==
    CASE w = "Surge" -> "surge"
      [] w = "Crisis" -> "crisis"
      [] w = "Stock" -> "stock"
      [] w = "Price" -> "price"
      [] w = "Earnings" -> "earnings"
      [] w = "Growth" -> "growth"
      [] OTHER -> w

\* str.lower() on a text
LowerText(t) == [i \in 1..Len(t) |-> Lower(t[i])]

\* p occurs inside the single word w
InWord(w, p) ==
    \/ w = p
    \/ <<w, p>> \in {<<"against", "gains">>, <<"surged", "surge">>,
                     <<"prices", "price">>, <<"restock", "stock">>}

\* the word w ends with p / starts with p
EndsWith(w, p) == w = p \/ <<w, p>> \in {<<"restock", "stock">>}

StartsWith(w, p) == w = p \/ <<w, p>> \in {<<"prices", "price">>, <<"surged", "surge">>}

\* the phrase p occurs in text t starting at word i
MatchAt(t, p, i) ==
    IF Len(p) = 1
    THEN InWord(t[i], p[1])
    ELSE /\ EndsWith(t[i], p[1])
         /\ \A j \in 2..(Len(p) - 1) : t[i + j - 1] = p[j]
         /\ StartsWith(t[i + Len(p) - 1], p[Len(p)])

\* Python's `p in t` for a non-empty phrase p
Contains(t, p) == \E i \in 1..(Len(t) - Len(p) + 1) : MatchAt(t, p, i)

\* the separator f"{title}. {description}" puts between the two texts: the
\* full stop closes the title's last word, so no phrase matches across it
Stop == "."

\* a text is empty (Python: `not text`)
Empty(t) == Len(t) = 0

\* how many phrases of the list `phrases` occur in text t: the loop
\* `for phrase in phrases: if phrase.lower() in text_lower: score += 1`
RECURSIVE CountPhrases(_, _)
CountPhrases(t, phrases) ==
    IF phrases = <<>>
    THEN 0
    ELSE (IF Contains(t, LowerText(Head(phrases))) THEN 1 ELSE 0)
         + CountPhrases(t, Tail(phrases))

\* -------------------------------------------- NewsAnalyzer._simple_analysis

\* the keys of impact_phrases, in the dict's insertion order
ImpactLevels ==
    <<"Very Positive", "Somewhat Positive", "Somewhat Negative", "Very Negative">>

\* the five labels of the prompt's market_impact list
ImpactLabels ==
    {"Very Positive", "Somewhat Positive", "Ambivalent",
     "Somewhat Negative", "Very Negative"}

\* impact_phrases[level]
ImpactPhrases(level) ==
    CASE level = "Very Positive" ->
           <<(<<"surge">>), (<<"breakthrough">>),
             (<<"exceeds", "expectations">>), (<<"record", "high">>)>>
      [] level = "Somewhat Positive" ->
           <<(<<"increase">>), (<<"growth">>), (<<"improvement">>), (<<"gains">>)>>
      [] level = "Somewhat Negative" ->
           <<(<<"decline">>), (<<"below", "expectations">>), (<<"challenges">>)>>
      [] level = "Very Negative" ->
           <<(<<"plunge">>), (<<"crisis">>),
             (<<"major", "setback">>), (<<"significant", "loss">>)>>

\* combined_text = f"{title}. {description}"
CombinedText(title, description) == title \o <<Stop>> \o description

\* impact_scores after the scoring loop, as a function of the level
ImpactScores(title, description) ==
    LET text_lower == LowerText(CombinedText(title, description))
    IN  [i \in 1..Len(ImpactLevels) |->
            CountPhrases(text_lower, ImpactPhrases(ImpactLevels[i]))]

\* max(impact_scores.values())
MaxScore(scores) ==
    CHOOSE m \in {scores[i] : i \in DOMAIN scores} :
        \A i \in DOMAIN scores : scores[i] <= m

\* a slip of the selection: the level with the lowest count
SelectImpactLowest(scores) ==
    LET i == CHOOSE k \in DOMAIN scores : \A j \in DOMAIN scores : scores[k] <= scores[j]
    IN  ImpactLevels[i]

\* lines 193-198: Ambivalent when nothing matched, else
\* max(impact_scores.items(), key=lambda x: x[1])[0], the first level in
\* insertion order that carries the highest count
SelectImpact(scores) ==
    IF MaxScore(scores) = 0
    THEN "Ambivalent"
    ELSE LET first == CHOOSE i \in DOMAIN scores :
                        /\ scores[i] = MaxScore(scores)
                        /\ \A j \in 1..(i - 1) : scores[j] < MaxScore(scores)
         IN  ImpactLevels[first]

\* position of the first full stop of a text, 0 when it has none
FirstStop(t) ==
    IF \E i \in 1..Len(t) : t[i] = Stop
    THEN CHOOSE i \in 1..Len(t) : t[i] = Stop /\ \A j \in 1..(i - 1) : t[j] # Stop
    ELSE 0

\* text.split('.')[0]
FirstSentence(t) ==
    IF FirstStop(t) = 0 THEN t ELSE SubSeq(t, 1, FirstStop(t) - 1)

\* text.split('.')[1], for a text that holds a full stop
SecondSentence(t) ==
    FirstSentence(SubSeq(t, FirstStop(t) + 1, Len(t)))

\* summary_sentences of lines 165-171
SummarySentences(title, description) ==
    (IF Empty(title) THEN <<>> ELSE <<FirstSentence(title)>>)
    \o (IF ~Empty(description) /\ FirstStop(description) # 0
        THEN <<SecondSentence(description)>>
        ELSE <<>>)

\* impact_explanation of lines 195 and 198
ImpactExplanation(market_impact) ==
    IF market_impact = "Ambivalent"
    THEN <<"mixed or unclear implications">>
    ELSE <<"Multiple indicators suggest", market_impact>>

\* a verdict as _analyze_article hands it to its caller: the dict of lines
\* 145-150 and 203-208, None, or an exception that left the call
Verdict(summary, significance, impact, explanation) ==
    [kind |-> "dict", article_summary |-> summary, significance |-> significance,
     market_impact |-> impact, impact_explanation |-> explanation]

NoneVerdict ==
    [kind |-> "None", article_summary |-> <<>>, significance |-> <<>>,
     market_impact |-> "", impact_explanation |-> <<>>]

RaisedVerdict ==
    [kind |-> "raised", article_summary |-> <<>>, significance |-> <<>>,
     market_impact |-> "", impact_explanation |-> <<>>]

\* no call has returned yet
UnsetVerdict ==
    [kind |-> "unset", article_summary |-> <<>>, significance |-> <<>>,
     market_impact |-> "", impact_explanation |-> <<>>]

\* _simple_analysis(title, description), lines 158-208
SimpleAnalysis(title, description) ==
    LET market_impact == SelectImpact(ImpactScores(title, description))
        impact_explanation == ImpactExplanation(market_impact)
    IN  Verdict(SummarySentences(title, description),
                <<"This news potentially affects">> \o impact_explanation,
                market_impact,
                impact_explanation)

\* lines 210-217: the dict the except clause of _simple_analysis returns
SimpleAnalysisOnError(title) ==
    Verdict(title, <<"Unable to analyze specific impact">>, "Ambivalent",
            <<"Insufficient information for detailed analysis">>)

\* ------------------------------------- SentimentAnalyzer._is_relevant_news

\* self.market_keywords
MarketKeywords ==
    <<(<<"stock", "price">>), (<<"market", "cap">>), (<<"trading", "volume">>),
      (<<"earnings", "report">>), (<<"quarterly", "results">>),
      (<<"revenue", "growth">>), (<<"profit", "margin">>), (<<"market", "share">>),
      (<<"analyst", "rating">>), (<<"price", "target">>),
      (<<"financial", "results">>), (<<"market", "performance">>)>>

\* a publishedAt value: missing or empty, a string strptime rejects, or a
\* timestamp `age` whole days before datetime.now()
NoDate == [kind |-> "missing", age |-> 0]

BadDate == [kind |-> "malformed", age |-> 0]

DateAged(n) == [kind |-> "timestamp", age |-> n]

\* line 195: datetime.now() - pub_date > timedelta(days=7)
TooOld(date_published) == date_published.age > RecencyDays

\* a slip of the threshold: one keyword is enough
EnoughKeywordsOne(relevant_keywords) == relevant_keywords >= 1

\* line 204: relevant_keywords >= 2
EnoughKeywords(relevant_keywords) == relevant_keywords >= MinKeywords

\* lines 202-203: the keywords counted in (title + ' ' + description).lower()
RelevantKeywords(title, description) ==
    CountPhrases(LowerText(title \o description), MarketKeywords)

\* _is_relevant_news(title, description, date_published), lines 187-204
IsRelevantNews(title, description, date_published) ==
    IF Empty(title) \/ Empty(description) \/ date_published.kind = "missing"
    THEN FALSE
    ELSE IF date_published.kind = "malformed"
    THEN FALSE
    ELSE IF TooOld(date_published)
    THEN FALSE
    ELSE EnoughKeywords(RelevantKeywords(title, description))

\* ------------------------------------------------------------ input texts

\* titles and descriptions the calls are made with
Texts ==
    {<<>>,
     <<"shares", "surge">>,
     <<"Crisis", "deepens">>,
     <<"record", "high", "growth">>,
     <<"profits", "decline", Stop, "challenges", "ahead">>,
     <<"stock", "price", "climbs">>,
     <<"earnings", "report", "lifts", "market", "share">>,
     <<"Stock", "Price", "and", "revenue", "growth">>,
     <<"update", "on", "stock">>,
     <<"price", "target", "raised">>,
     <<"weighs", "against", "record">>,
     <<"high", "hopes">>,
     <<"company", "news">>}

\* publishedAt values the calls are made with
Dates ==
    {NoDate, BadDate, DateAged(0), DateAged(RecencyDays), DateAged(RecencyDays + 1)}

\* ------------------------------------------------------------------ state

VARIABLES
    \* the pure scorers, called on their own
    title,              \* the title a scorer is called with
    description,        \* the description a scorer is called with
    date_published,     \* the publishedAt value _is_relevant_news is called with
    simple_result,      \* what _simple_analysis returned
    relevant_result,    \* what _is_relevant_news returned
    \* NewsAnalyzer
    deepseek_api_key,   \* self.deepseek_api_key is set
    fetch_pc,           \* where fetch_relevant_news stands
    news_response,      \* what requests.get gave fetch_relevant_news
    idx,                \* articles of articles[:4] the loop is done with
    processed_articles, \* processed_articles
    errors,             \* articles the loop's except clause dropped
    fetch_result,       \* what fetch_relevant_news handed to its caller
    analyze_pc,         \* where the running _analyze_article call stands
    article,            \* the article of the running _analyze_article call
    response,           \* what requests.post gave the running call
    log,                \* the steps the running call has taken
    verdict,            \* what the call handed to its caller
    \* SentimentAnalyzer.analyze_market_sentiment
    sent_pc,            \* where analyze_market_sentiment stands
    sent_response,      \* what requests.get gave it
    sent_idx,           \* articles the loop of line 234 is done with
    relevant_articles,  \* relevant_articles
    sentiments,         \* sentiments: (score, weight) pairs
    significant_news,   \* significant_news
    sent_result,        \* what analyze_market_sentiment handed to its caller
    cache,              \* self.cache: the symbols it holds an entry for
    \* the confidence of line 284, computed on its own
    conf_pc,            \* "idle", or "done" once the confidence is computed
    article_count,      \* len(relevant_articles)
    pooled_mean,        \* weighted_sentiment
    confidence_score,   \* confidence_score * 100, the record's confidence
    \* SentimentAnalyzer.get_market_mood
    mood_pc,            \* where get_market_mood stands
    symbols,            \* the symbols argument
    mood_idx,           \* symbols the loop of line 158 is done with
    social_results,     \* what analyze_social_sentiment returned, symbol by symbol
    all_sentiments,     \* all_sentiments
    total_confidence,   \* total_confidence
    total_posts,        \* total_posts
    mood_result,        \* what get_market_mood handed to its caller
    \* one run of the page script, main.py
    page_pc,            \* the section of the page the run is in
    holdings,           \* how many positions the portfolio holds
    page_idx,           \* positions the section's loop is done with
    page_value,         \* what the entry point called last returned
    rendered,           \* the blocks the run has written to the page
    page_error,         \* the exception that ended the run, "" if none
    \* MarketData.get_stock_data, get_stock_prediction and MarketPredictor
    pred_call,          \* the call made last: which method
    stock_pc,           \* where get_stock_data stands
    attempt,            \* `attempt` of the loop of line 57
    stock_log,          \* what the attempts gave, and the sleeps, in order
    stock_data,         \* what get_stock_data returned
    fitted,             \* self.model and self.scaler: fitted or not, and on what
    pred_history,       \* the history train or predict_trend was called with
    train_result,       \* what train returned
    forecast,           \* what predict_trend or get_stock_prediction returned
    \* PortfolioManager
    self_holdings,      \* self.holdings, the rows in order
    saved_file,         \* the rows portfolio.json holds
    last_call,          \* the call of add_position or remove_position made last
    prev_call           \* the call before it

scorerVars == <<title, description, date_published, simple_result, relevant_result>>

newsVars ==
    <<deepseek_api_key, fetch_pc, news_response, idx, processed_articles, errors,
      fetch_result, analyze_pc, article, response, log, verdict>>

sentVars ==
    <<sent_pc, sent_response, sent_idx, relevant_articles, sentiments,
      significant_news, sent_result, cache>>

confVars == <<conf_pc, article_count, pooled_mean, confidence_score>>

moodVars ==
    <<mood_pc, symbols, mood_idx, social_results, all_sentiments, total_confidence,
      total_posts, mood_result>>

pageVars == <<page_pc, holdings, page_idx, page_value, rendered, page_error>>

predVars ==
    <<pred_call, stock_pc, attempt, stock_log, stock_data, fitted, pred_history,
      train_result, forecast>>

portVars == <<self_holdings, saved_file, last_call, prev_call>>

vars ==
    <<scorerVars, newsVars, sentVars, confVars, moodVars, pageVars, predVars, portVars>>

\* ---------------------------------------------------- the scorers, alone

ScorerInit ==
    /\ title \in Texts
    /\ description \in Texts
    /\ date_published \in Dates
    /\ simple_result = UnsetVerdict
    /\ relevant_result = "unset"

\* one call of _simple_analysis(title, description)
CallSimpleAnalysis ==
    /\ simple_result = UnsetVerdict
    /\ simple_result' = SimpleAnalysis(title, description)
    /\ UNCHANGED <<title, description, date_published, relevant_result>>

\* one call of _is_relevant_news(title, description, date_published)
CallIsRelevantNews ==
    /\ relevant_result = "unset"
    /\ relevant_result' =
          IF IsRelevantNews(title, description, date_published) THEN "True" ELSE "False"
    /\ UNCHANGED <<title, description, date_published, simple_result>>

\* ------------------------------------------------------------ NewsAnalyzer

\* an article of the news-search response
Article(t, d, has_url, published_at) ==
    [title |-> t, description |-> d, has_url |-> has_url, publishedAt |-> published_at]

NoArticle == Article(<<>>, <<>>, FALSE, NoDate)

\* the articles a news-search response is made of
NewsArticles ==
    {Article(<<"shares", "surge">>, <<"Crisis", "deepens">>, TRUE, DateAged(0)),
     Article(<<"earnings", "report", "lifts", "market", "share">>,
             <<"stock", "price", "climbs">>, TRUE, DateAged(0)),
     Article(<<"earnings", "report", "lifts", "market", "share">>,
             <<"stock", "price", "climbs">>, TRUE, DateAged(RecencyDays + 1)),
     Article(<<"company", "news">>, <<>>, TRUE, DateAged(0)),
     Article(<<>>, <<"company", "news">>, TRUE, DateAged(0)),
     Article(<<"record", "high", "growth">>, <<"company", "news">>, FALSE, DateAged(0))}

\* what the news endpoint does: the request fails with an exception, it is
\* answered with a status other than 200, with a body that is no JSON or with
\* a JSON body of `count` articles, or the endpoint stays "silent" for ever
NewsResponse(kind, count) == [kind |-> kind, count |-> count]

NoNewsResponse == NewsResponse("unset", 0)

NewsResponses ==
    {NewsResponse("exception", 0), NewsResponse("status", 0), NewsResponse("badjson", 0),
     NewsResponse("silent", 0)}
    \cup {NewsResponse("ok", n) : n \in 0..MaxArticles}

\* what the text-generation endpoint does: the request fails with an
\* exception, it is answered with a status other than 200, with content that
\* is no JSON, with JSON content that lacks a key or with the four keys and
\* market_impact = label, or the endpoint stays "silent" for ever
PostResponse(kind, label) == [kind |-> kind, label |-> label]

NoPostResponse == PostResponse("unset", "")

\* market_impact values a well-formed reply carries
RemoteLabels == {"Somewhat Positive", "Bullish"}

PostResponses ==
    {PostResponse(k, "") : k \in {"exception", "status", "badjson", "missingkey", "silent"}}
    \cup {PostResponse("ok", l) : l \in RemoteLabels}

\* What a requests call gives its caller on an endpoint that does r: on a
\* silent endpoint a call with a timeout raises requests.exceptions.Timeout
\* and a call without one never returns ("blocked").
Outcome(has_timeout, r) ==
    IF r.kind # "silent" THEN r.kind
    ELSE IF has_timeout THEN "exception" ELSE "blocked"

\* line 40: requests.get(self.news_api_url, params=params)
FetchGetHasTimeout == FALSE

\* lines 128-140: requests.post(..., json={...}, timeout=30)
PostHasTimeout == TRUE

\* sentiment_analyzer.py line 224: requests.get(self.news_api_url, params=params)
SentimentGetHasTimeout == FALSE

\* what fetch_relevant_news hands to its caller
FetchDict(articles) == [kind |-> "dict", articles |-> articles]

FetchRaised == [kind |-> "raised", articles |-> <<>>]

FetchUnset == [kind |-> "unset", articles |-> <<>>]

NewsInit ==
    /\ deepseek_api_key \in BOOLEAN
    /\ fetch_pc = "idle"
    /\ news_response = NoNewsResponse
    /\ idx = 0
    /\ processed_articles = <<>>
    /\ errors = 0
    /\ fetch_result = FetchUnset
    /\ analyze_pc = "idle"
    /\ article = NoArticle
    /\ response = NoPostResponse
    /\ log = <<>>
    /\ verdict = UnsetVerdict

Min(a, b) == IF a <= b THEN a ELSE b

\* len(articles[:4]): how many articles the loop of line 55 visits
LoopLimit == Min(news_response.count, MaxProcessed)

\* an outer handler that lets the exception leave fetch_relevant_news
FetchOnExceptionRaise == FetchRaised

\* lines 78-81: the outer except clause of fetch_relevant_news
FetchOnException == FetchDict(<<>>)

\* requests.get and what follows it up to the loop, lines 40-54
FetchRelevantNews ==
    /\ fetch_pc = "idle"
    /\ \E r \in NewsResponses :
         /\ news_response' = r
         /\ IF Outcome(FetchGetHasTimeout, r) = "blocked"
            THEN /\ fetch_result' = fetch_result
                 /\ fetch_pc' = "blocked"
            ELSE IF Outcome(FetchGetHasTimeout, r) \in {"exception", "badjson"}
            THEN /\ fetch_result' = FetchOnException
                 /\ fetch_pc' = "done"
            ELSE IF r.kind = "status" \/ r.count = 0
            THEN /\ fetch_result' = FetchDict(<<>>)
                 /\ fetch_pc' = "done"
            ELSE /\ fetch_result' = fetch_result
                 /\ fetch_pc' = "loop"
    /\ UNCHANGED <<deepseek_api_key, idx, processed_articles, errors,
                   analyze_pc, article, response, log, verdict>>
    /\ UNCHANGED <<scorerVars, sentVars, confVars, moodVars, pageVars, predVars, portVars>>

\* a guard that looks at the title alone
MissingTextTitleOnly(a) == Empty(a.title)

\* line 85: `not article.get('title') or not article.get('description')`
MissingText(a) == Empty(a.title) \/ Empty(a.description)

\* a guard that asks the remote service whether or not a key is configured
AlwaysRemote == TRUE

\* line 89: `if self.deepseek_api_key:`
UseRemote == deepseek_api_key

\* the loop of line 55 takes its next article and calls _analyze_article,
\* which runs up to its first request or its fallback (lines 85-89)
AnalyzeArticle ==
    /\ fetch_pc = "loop"
    /\ analyze_pc = "idle"
    /\ idx < LoopLimit
    /\ \E a \in NewsArticles :
         /\ article' = a
         /\ IF MissingText(a)
            THEN /\ verdict' = NoneVerdict
                 /\ analyze_pc' = "return"
            ELSE /\ verdict' = UnsetVerdict
                 /\ analyze_pc' = IF UseRemote THEN "post" ELSE "fallback"
    /\ log' = <<>>
    /\ response' = NoPostResponse
    /\ UNCHANGED <<deepseek_api_key, fetch_pc, news_response, idx,
                   processed_articles, errors, fetch_result>>
    /\ UNCHANGED <<scorerVars, sentVars, confVars, moodVars, pageVars, predVars, portVars>>

\* lines 145-150: the verdict built from a well-formed reply
RemoteVerdict(r) ==
    Verdict(<<(<<"remote", "summary">>)>>, <<"remote deep_analysis">>,
            r.label, <<"remote trading_thesis">>)

\* requests.post and the handling of its reply, lines 128-150
PostRequest ==
    /\ analyze_pc = "post"
    /\ \E r \in PostResponses :
         /\ response' = r
         /\ IF r.kind = "ok"
            THEN /\ verdict' = RemoteVerdict(r)
                 /\ log' = log \o <<"request", "remote verdict">>
                 /\ analyze_pc' = "return"
            ELSE /\ verdict' = verdict
                 /\ log' = Append(log, "request")
                 /\ analyze_pc' =
                       IF Outcome(PostHasTimeout, r) = "blocked" THEN "blocked"
                       ELSE IF r.kind = "status" THEN "fallback"
                       ELSE "except"
    /\ UNCHANGED <<deepseek_api_key, fetch_pc, news_response, idx,
                   processed_articles, errors, fetch_result, article>>
    /\ UNCHANGED <<scorerVars, sentVars, confVars, moodVars, pageVars, predVars, portVars>>

\* line 152: the fallback after no key or a status other than 200
Fallback ==
    /\ analyze_pc = "fallback"
    /\ verdict' = SimpleAnalysis(article.title, article.description)
    /\ log' = Append(log, "fallback")
    /\ analyze_pc' = "return"
    /\ UNCHANGED <<deepseek_api_key, fetch_pc, news_response, idx,
                   processed_articles, errors, fetch_result, article, response>>
    /\ UNCHANGED <<scorerVars, sentVars, confVars, moodVars, pageVars, predVars, portVars>>

\* an except clause that passes the exception on
ExceptReraise(a) == RaisedVerdict

\* lines 154-156: the except clause of _analyze_article
ExceptAnalysis(a) == SimpleAnalysis(a.title, a.description)

\* the except clause runs: the request raised, or its reply did not parse
Except ==
    /\ analyze_pc = "except"
    /\ verdict' = ExceptAnalysis(article)
    /\ log' = Append(log, "fallback")
    /\ analyze_pc' = "return"
    /\ UNCHANGED <<deepseek_api_key, fetch_pc, news_response, idx,
                   processed_articles, errors, fetch_result, article, response>>
    /\ UNCHANGED <<scorerVars, sentVars, confVars, moodVars, pageVars, predVars, portVars>>

\* lines 59-65: the entry appended to processed_articles
Processed(a, v) ==
    [title |-> a.title, article_summary |-> v.article_summary, url |-> a.has_url,
     published_at |-> a.publishedAt, analysis |-> v]

\* lines 60-63 raise KeyError on an article without url or publishedAt
EntryRaises(a) == ~a.has_url \/ a.publishedAt.kind = "missing"

\* _analyze_article has returned: lines 58-69 keep the article, skip it
\* (None), or drop it in the loop's except clause
Collect ==
    /\ analyze_pc = "return"
    /\ IF verdict.kind = "raised" \/ (verdict.kind = "dict" /\ EntryRaises(article))
       THEN /\ errors' = errors + 1
            /\ processed_articles' = processed_articles
       ELSE IF verdict.kind = "dict"
       THEN /\ errors' = errors
            /\ processed_articles' = Append(processed_articles, Processed(article, verdict))
       ELSE /\ errors' = errors
            /\ processed_articles' = processed_articles
    /\ idx' = idx + 1
    /\ analyze_pc' = "idle"
    /\ article' = NoArticle
    /\ response' = NoPostResponse
    /\ log' = <<>>
    /\ verdict' = UnsetVerdict
    /\ UNCHANGED <<deepseek_api_key, fetch_pc, news_response, fetch_result>>
    /\ UNCHANGED <<scorerVars, sentVars, confVars, moodVars, pageVars, predVars, portVars>>

\* lines 71-76: the loop is over
FetchReturn ==
    /\ fetch_pc = "loop"
    /\ analyze_pc = "idle"
    /\ idx = LoopLimit
    /\ fetch_result' = FetchDict(processed_articles)
    /\ fetch_pc' = "done"
    /\ UNCHANGED <<deepseek_api_key, news_response, idx, processed_articles, errors,
                   analyze_pc, article, response, log, verdict>>
    /\ UNCHANGED <<scorerVars, sentVars, confVars, moodVars, pageVars, predVars, portVars>>

\* ------------------------------ SentimentAnalyzer.analyze_market_sentiment

\* An article of the response with what TextBlob makes of it: the polarity of
\* its title and of its description in tenths (-10..10), and whether scoring
\* it raises ("no", or at the "title" or the "description").
ScoredArticle(t, d, published_at, title_score, desc_score, raises) ==
    [title |-> t, description |-> d, publishedAt |-> published_at,
     title_score |-> title_score, desc_score |-> desc_score, raises |-> raises]

RelevantTitle == <<"earnings", "report", "lifts", "market", "share">>

\* the articles a response to analyze_market_sentiment is made of
SentimentArticles ==
    {ScoredArticle(RelevantTitle, <<"stock", "price", "climbs">>, DateAged(0), 5, 0, "no"),
     ScoredArticle(RelevantTitle, <<"company", "news">>, DateAged(RecencyDays), -8, -2, "no"),
     ScoredArticle(RelevantTitle, <<"company", "news">>, DateAged(0), 4, 10, "no"),
     ScoredArticle(RelevantTitle, <<"company", "news">>, DateAged(0), 0, 0, "title"),
     ScoredArticle(RelevantTitle, <<"company", "news">>, DateAged(0), -7, 0, "description"),
     ScoredArticle(<<"stock", "price", "climbs">>, <<"company", "news">>, DateAged(0), 9, 9, "no"),
     ScoredArticle(RelevantTitle, <<"company", "news">>, DateAged(RecencyDays + 1), 9, 9, "no"),
     ScoredArticle(RelevantTitle, <<>>, DateAged(0), 9, 0, "no"),
     ScoredArticle(RelevantTitle, <<"company", "news">>, DateAged(0), 5, 5, "no"),
     ScoredArticle(RelevantTitle, <<"company", "news">>, DateAged(RecencyDays), -2, -2, "no"),
     ScoredArticle(RelevantTitle, <<"company", "news">>, DateAged(0), -4, -4, "no"),
     ScoredArticle(RelevantTitle, <<"company", "news">>, BadDate, 9, 9, "no")}

SentimentResponses ==
    {NewsResponse("exception", 0), NewsResponse("status", 0), NewsResponse("badjson", 0),
     NewsResponse("silent", 0)}
    \cup {NewsResponse("ok", n) : n \in 0..MaxSentimentArticles}

Abs(x) == IF x < 0 THEN -x ELSE x

\* a number num/den, den > 0
Ratio(num, den) == [num |-> num, den |-> den]

\* a trend whose bounds are strict: a mean of exactly 0.5 is only Bullish
SentimentTrendStrict(score) ==
    IF 2 * score.num > score.den
    THEN [direction |-> "Strong Bullish", impact |-> "High Positive"]
    ELSE IF 5 * score.num > score.den
    THEN [direction |-> "Bullish", impact |-> "Positive"]
    ELSE IF 2 * score.num < -score.den
    THEN [direction |-> "Strong Bearish", impact |-> "High Negative"]
    ELSE IF 5 * score.num < -score.den
    THEN [direction |-> "Bearish", impact |-> "Negative"]
    ELSE [direction |-> "Neutral", impact |-> "Low"]

\* _get_sentiment_trend(sentiment_score), lines 125-136, on a ratio:
\* num/den >= 0.5 is 2 num >= den, num/den >= 0.2 is 5 num >= den
SentimentTrend(score) ==
    IF 2 * score.num >= score.den
    THEN [direction |-> "Strong Bullish", impact |-> "High Positive"]
    ELSE IF 5 * score.num >= score.den
    THEN [direction |-> "Bullish", impact |-> "Positive"]
    ELSE IF 2 * score.num <= -score.den
    THEN [direction |-> "Strong Bearish", impact |-> "High Negative"]
    ELSE IF 5 * score.num <= -score.den
    THEN [direction |-> "Bearish", impact |-> "Negative"]
    ELSE [direction |-> "Neutral", impact |-> "Low"]

\* a dict analyze_market_sentiment returns: `keys` are the dict's keys,
\* `count` its total_posts or news_count, `items` its key_posts or key_insights
SentimentDict(keys, average, direction, confidence, count, items, impact) ==
    [kind |-> "dict", keys |-> keys, symbol |-> "XYZ", average_sentiment |-> average,
     sentiment_direction |-> direction, confidence |-> confidence, count |-> count,
     items |-> items, market_impact |-> impact]

SentimentRaised ==
    [kind |-> "raised", keys |-> {}, symbol |-> "XYZ", average_sentiment |-> Ratio(0, 1),
     sentiment_direction |-> "", confidence |-> Ratio(0, 1), count |-> 0,
     items |-> <<>>, market_impact |-> ""]

SentimentUnset ==
    [kind |-> "unset", keys |-> {}, symbol |-> "XYZ", average_sentiment |-> Ratio(0, 1),
     sentiment_direction |-> "", confidence |-> Ratio(0, 1), count |-> 0,
     items |-> <<>>, market_impact |-> ""]

\* _get_neutral_sentiment(symbol), lines 138-149
NeutralSentiment ==
    SentimentDict({"symbol", "average_sentiment", "sentiment_direction", "confidence",
                   "total_posts", "key_posts", "market_impact", "timestamp"},
                  Ratio(0, 1), "Neutral", Ratio(0, 1), 0, <<>>, "No Impact")

\* an outer handler that lets the exception leave analyze_market_sentiment
SentimentOnExceptionRaise == SentimentRaised

\* lines 300-302: the outer except clause of analyze_market_sentiment
SentimentOnException == NeutralSentiment

\* requests.get and what follows it up to the loop, lines 224-232
AnalyzeMarketSentiment ==
    /\ sent_pc = "idle"
    /\ \E r \in SentimentResponses :
         /\ sent_response' = r
         /\ IF Outcome(SentimentGetHasTimeout, r) = "blocked"
            THEN /\ sent_result' = sent_result
                 /\ sent_pc' = "blocked"
            ELSE IF Outcome(SentimentGetHasTimeout, r) \in {"exception", "badjson"}
            THEN /\ sent_result' = SentimentOnException
                 /\ sent_pc' = "done"
            ELSE IF r.kind = "status"
            THEN /\ sent_result' = NeutralSentiment
                 /\ sent_pc' = "done"
            ELSE /\ sent_result' = sent_result
                 /\ sent_pc' = "loop"
    /\ UNCHANGED <<sent_idx, relevant_articles, sentiments, significant_news>>
    /\ UNCHANGED cache
    /\ UNCHANGED <<scorerVars, newsVars, confVars, moodVars, pageVars, predVars, portVars>>

\* lines 251-256: the entry appended to significant_news
Significant(a) ==
    [title |-> a.title, score |-> a.title_score,
     impact |-> IF Abs(a.title_score) > 6 THEN "High" ELSE "Medium",
     published_at |-> a.publishedAt]

\* lines 243-246: the title's (score, weight) pair, weight 1.5 + |score|
TitleSentiment(a) == <<a.title_score, 15 + Abs(a.title_score)>>

\* lines 260-262: the description's (score, weight) pair, weight 1.0
DescSentiment(a) == <<a.desc_score, 10>>

\* one pass of the loop of lines 234-266 on the next article of the response
ScoreArticle ==
    /\ sent_pc = "loop"
    /\ sent_idx < sent_response.count
    /\ \E a \in SentimentArticles :
         IF IsRelevantNews(a.title, a.description, a.publishedAt)
         THEN /\ relevant_articles' = Append(relevant_articles, a)
              /\ sentiments' =
                    IF a.raises = "title"
                    THEN sentiments
                    ELSE IF a.raises = "description" \/ Empty(a.description)
                    THEN Append(sentiments, TitleSentiment(a))
                    ELSE sentiments \o <<TitleSentiment(a), DescSentiment(a)>>
              /\ significant_news' =
                    IF a.raises # "title" /\ Abs(a.title_score) > 3
                    THEN Append(significant_news, Significant(a))
                    ELSE significant_news
         ELSE UNCHANGED <<relevant_articles, sentiments, significant_news>>
    /\ sent_idx' = sent_idx + 1
    /\ UNCHANGED <<sent_pc, sent_response, sent_result>>
    /\ UNCHANGED cache
    /\ UNCHANGED <<scorerVars, newsVars, confVars, moodVars, pageVars, predVars, portVars>>

RECURSIVE SumWeights(_)
\* sum(weight for _, weight in sentiments)
SumWeights(ss) == IF ss = <<>> THEN 0 ELSE Head(ss)[2] + SumWeights(Tail(ss))

RECURSIVE SumScores(_)
\* sum(score * weight for score, weight in sentiments)
SumScores(ss) == IF ss = <<>> THEN 0 ELSE Head(ss)[1] * Head(ss)[2] + SumScores(Tail(ss))

\* line 274: scores and weights are tenths, so the mean is
\* SumScores / (10 * SumWeights)
WeightedSentiment(ss) == Ratio(SumScores(ss), 10 * SumWeights(ss))

\* the sort key of lines 277-280 orders x before y under reverse=True: the
\* later publish time first, then the larger absolute score
SortsBefore(x, y) ==
    \/ x.published_at.age < y.published_at.age
    \/ /\ x.published_at.age = y.published_at.age
       /\ Abs(x.score) > Abs(y.score)

\* x put into a sorted list, after the entries of equal key (the sort is stable)
InsertNews(sorted, x) ==
    LET before == {i \in 1..Len(sorted) : SortsBefore(x, sorted[i])}
        at == IF before = {} THEN Len(sorted) + 1
              ELSE CHOOSE i \in before : \A j \in before : i <= j
    IN  SubSeq(sorted, 1, at - 1) \o <<x>> \o SubSeq(sorted, at, Len(sorted))

RECURSIVE SortNews(_)
\* significant_news.sort(key=..., reverse=True), lines 277-280
SortNews(news) ==
    IF news = <<>> THEN <<>>
    ELSE InsertNews(SortNews(SubSeq(news, 1, Len(news) - 1)), news[Len(news)])

\* line 284, times the 100 of line 290:
\* min(len(relevant_articles) / 10, 1.0) * (1 + abs(weighted_sentiment)) * 100
Confidence(n, average) ==
    Ratio(Min(n, 10) * 10 * (average.den + Abs(average.num)), average.den)

\* lines 268-298: the loop is over
SentimentReturn ==
    /\ sent_pc = "loop"
    /\ sent_idx = sent_response.count
    /\ sent_result' =
          IF sentiments = <<>>
          THEN NeutralSentiment
          ELSE LET weighted_sentiment == WeightedSentiment(sentiments)
                   sentiment_trend == SentimentTrend(weighted_sentiment)
                   sorted == SortNews(significant_news)
               IN  SentimentDict(
                     {"symbol", "average_sentiment", "sentiment_direction", "confidence",
                      "news_count", "key_insights", "market_impact", "timestamp"},
                     weighted_sentiment,
                     sentiment_trend.direction,
                     Confidence(Len(relevant_articles), weighted_sentiment),
                     Len(relevant_articles),
                     SubSeq(sorted, 1, Min(3, Len(sorted))),
                     sentiment_trend.impact)
    /\ sent_pc' = "done"
    /\ UNCHANGED <<sent_response, sent_idx, relevant_articles, sentiments, significant_news>>
    /\ UNCHANGED cache
    /\ UNCHANGED <<scorerVars, newsVars, confVars, moodVars, pageVars, predVars, portVars>>

\* __init__, line 10, sets self.cache = {}; no line of the class reads it or
\* writes it afterwards, and no line reads self.cache_duration
SentimentInit ==
    /\ sent_pc = "idle"
    /\ sent_response = NoNewsResponse
    /\ sent_idx = 0
    /\ relevant_articles = <<>>
    /\ sentiments = <<>>
    /\ significant_news = <<>>
    /\ sent_result = SentimentUnset
    /\ cache = {}

\* ------------------------------------ the confidence of line 284, alone

\* the pooled means the confidence is computed for: tenths from -1.0 to 1.0
PooledMeans == {Ratio(n, 10) : n \in -10..10}

\* a record is computed (lines 282-295) only when sentiments, and so
\* relevant_articles, is not empty
ConfInit ==
    /\ conf_pc = "idle"
    /\ article_count \in 1..MaxRelevant
    /\ pooled_mean \in PooledMeans
    /\ confidence_score = Ratio(0, 1)

ConfIdle ==
    /\ conf_pc = "idle"
    /\ article_count = 1
    /\ pooled_mean = Ratio(0, 10)
    /\ confidence_score = Ratio(0, 1)

\* lines 284 and 290 on article_count relevant articles of mean pooled_mean
CallConfidence ==
    /\ conf_pc = "idle"
    /\ confidence_score' = Confidence(article_count, pooled_mean)
    /\ conf_pc' = "done"
    /\ UNCHANGED <<article_count, pooled_mean>>
    /\ UNCHANGED <<scorerVars, newsVars, sentVars, moodVars, pageVars, predVars, portVars>>

\* ------------------------------------------------- exact rational numbers

RECURSIVE GCD(_, _)
GCD(a, b) == IF b = 0 THEN a ELSE GCD(b, a % b)

\* num/den in lowest terms, den > 0
Reduced(num, den) ==
    LET g == GCD(Abs(num), den) IN Ratio(num \div g, den \div g)

\* x + y, x * y and x / y (y > 0) of Python's floats, computed exactly
RAdd(x, y) == Reduced(x.num * y.den + y.num * x.den, x.den * y.den)
RMul(x, y) == Reduced(x.num * y.num, x.den * y.den)
RDiv(x, y) == Reduced(x.num * y.den, x.den * y.num)

\* --------------------------------------- SentimentAnalyzer.get_market_mood

\* What the Twitter search gives analyze_social_sentiment and what TextBlob
\* makes of it: an "error" of the API, or `tweets` tweets of which `scored`
\* were scored without an exception, their weighted mean being mean/10.
Tweets(kind, tweets, scored, mean) ==
    [kind |-> kind, tweets |-> tweets, scored |-> scored, mean |-> mean]

\* the answers a symbol's search is given
TwitterAnswers ==
    {Tweets("error", 0, 0, 0), Tweets("ok", 0, 0, 0), Tweets("ok", 2, 0, 0)}
    \cup {Tweets("ok", n, n, m) : n \in {2, 10, MaxTweets}, m \in {-5, 0, 2, 5}}

\* line 105, times the 100 of line 111:
\* min(len(sentiments) / max_tweets, 1.0) * (1 + abs(weighted_sentiment)) * 100
SocialConfidence(n, average) ==
    Ratio(Min(n, MaxTweets) * 100 * (average.den + Abs(average.num)),
          MaxTweets * average.den)

\* analyze_social_sentiment(symbol), lines 33-123, on a search answer; its
\* key_posts are left empty, get_market_mood does not read them
AnalyzeSocialSentiment(answer) ==
    IF answer.kind = "error" \/ answer.tweets = 0 \/ answer.scored = 0
    THEN NeutralSentiment
    ELSE LET weighted_sentiment == Ratio(answer.mean, 10)
             sentiment_trend == SentimentTrend(weighted_sentiment)
         IN  SentimentDict(
               {"symbol", "average_sentiment", "sentiment_direction", "confidence",
                "total_posts", "key_posts", "market_impact", "timestamp"},
               weighted_sentiment,
               sentiment_trend.direction,
               SocialConfidence(answer.scored, weighted_sentiment),
               answer.scored,
               <<>>,
               sentiment_trend.impact)

\* the symbols argument: a list of `count` symbols, or a value that cannot
\* be iterated
Symbols(kind, count) == [kind |-> kind, count |-> count]

NoSymbols == Symbols("list", 0)

MoodArguments == {Symbols("None", 0)} \cup {Symbols("list", n) : n \in 0..MaxSymbols}

\* what get_market_mood hands to its caller
MoodDict(market_sentiment, analyzed_symbols, posts, average_confidence) ==
    [kind |-> "dict", market_sentiment |-> market_sentiment,
     analyzed_symbols |-> analyzed_symbols, total_posts |-> posts,
     average_confidence |-> average_confidence]

MoodNone ==
    [kind |-> "None", market_sentiment |-> Ratio(0, 1), analyzed_symbols |-> 0,
     total_posts |-> 0, average_confidence |-> Ratio(0, 1)]

MoodUnset ==
    [kind |-> "unset", market_sentiment |-> Ratio(0, 1), analyzed_symbols |-> 0,
     total_posts |-> 0, average_confidence |-> Ratio(0, 1)]

MoodInit ==
    /\ mood_pc = "idle"
    /\ symbols = NoSymbols
    /\ mood_idx = 0
    /\ social_results = <<>>
    /\ all_sentiments = <<>>
    /\ total_confidence = Ratio(0, 1)
    /\ total_posts = 0
    /\ mood_result = MoodUnset

\* lines 153-158 and 183-185: the call; iterating a value that is not a
\* list raises, and the except clause returns None
GetMarketMood ==
    /\ mood_pc = "idle"
    /\ \E arg \in MoodArguments :
         /\ symbols' = arg
         /\ IF arg.kind = "list"
            THEN mood_pc' = "loop" /\ mood_result' = mood_result
            ELSE mood_pc' = "done" /\ mood_result' = MoodNone
    /\ UNCHANGED <<mood_idx, social_results, all_sentiments, total_confidence, total_posts>>
    /\ UNCHANGED <<scorerVars, newsVars, sentVars, confVars, pageVars, predVars, portVars>>

\* a filter that lets every symbol contribute
ContributesAlways(social_sentiment) == TRUE

\* line 161: social_sentiment and social_sentiment['total_posts'] > 0
Contributes(social_sentiment) == social_sentiment.count > 0

\* one pass of the loop of lines 158-164 on the next symbol
MoodSymbol ==
    /\ mood_pc = "loop"
    /\ mood_idx < symbols.count
    /\ \E answer \in TwitterAnswers :
         LET social_sentiment == AnalyzeSocialSentiment(answer)
         IN  /\ social_results' = Append(social_results, social_sentiment)
             /\ IF Contributes(social_sentiment)
                THEN /\ all_sentiments' = Append(all_sentiments, social_sentiment)
                     /\ total_confidence' =
                           RAdd(total_confidence, social_sentiment.confidence)
                     /\ total_posts' = total_posts + social_sentiment.count
                ELSE UNCHANGED <<all_sentiments, total_confidence, total_posts>>
    /\ mood_idx' = mood_idx + 1
    /\ UNCHANGED <<mood_pc, symbols, mood_result>>
    /\ UNCHANGED <<scorerVars, newsVars, sentVars, confVars, pageVars, predVars, portVars>>

RECURSIVE SumWeighted(_)
\* lines 170-173: the sum of average_sentiment * (confidence / 100) *
\* total_posts over all_sentiments
SumWeighted(ss) ==
    IF ss = <<>> THEN Ratio(0, 1)
    ELSE RAdd(RMul(RMul(Head(ss).average_sentiment,
                        RDiv(Head(ss).confidence, Ratio(100, 1))),
                   Ratio(Head(ss).count, 1)),
              SumWeighted(Tail(ss)))

\* line 173: total_confidence * len(all_sentiments) if that is > 0, else 1
MoodDivisor(confidence, n) ==
    LET product == RMul(confidence, Ratio(n, 1))
    IN  IF product.num > 0 THEN product ELSE Ratio(1, 1)

\* lines 166-181: the loop is over
MoodReturn ==
    /\ mood_pc = "loop"
    /\ mood_idx = symbols.count
    /\ mood_result' =
          IF all_sentiments = <<>>
          THEN MoodNone
          ELSE MoodDict(
                 RDiv(SumWeighted(all_sentiments),
                      MoodDivisor(total_confidence, Len(all_sentiments))),
                 Len(all_sentiments),
                 total_posts,
                 RDiv(total_confidence, Ratio(Len(all_sentiments), 1)))
    /\ mood_pc' = "done"
    /\ UNCHANGED <<symbols, mood_idx, social_results, all_sentiments, total_confidence,
                   total_posts>>
    /\ UNCHANGED <<scorerVars, newsVars, sentVars, confVars, pageVars, predVars, portVars>>

\* ------------------------------------------------- the page, main.py

\* A value an entry point hands to the page: its Python type, the keys of a
\* dict, and the number of entries under its 'articles' key.
Value(type, keys, articles) == [type |-> type, keys |-> keys, articles |-> articles]

NoneValue == Value("NoneType", {}, 0)

\* `if value:` -- None and the empty dict are false
Truthy(v) == v.type # "NoneType" /\ ~(v.type = "dict" /\ v.keys = {})

\* value[:3] -- a list can be sliced, a dict cannot
SliceRaises(v) == v.type # "list"

\* what becomes of the 6-month history of a position: get_stock_data gives
\* an "empty" frame, train or predict_trend "failed", or a forecast is made
PredictionOutcomes == {"empty", "failed", "ok"}

\* market_data.py lines 78-99 with predictions.py lines 86-92
GetStockPrediction(outcome) ==
    IF outcome = "ok"
    THEN Value("dict", {"trend", "predicted_change", "confidence", "predicted_price",
                        "prediction_date"}, 0)
    ELSE NoneValue

\* market_data.py lines 10-13: __init__ sets self.predictor and
\* self.news_analyzer, and no self.sentiment_analyzer
HasSentimentAnalyzer == FALSE

\* market_data.py lines 101-114: self.sentiment_analyzer raises
\* AttributeError and the except clause returns None
GetMarketSentiment ==
    IF HasSentimentAnalyzer
    THEN Value("dict", {"market_sentiment", "analyzed_symbols"}, 0)
    ELSE NoneValue

\* what get_news_analysis meets: ticker.info "raises", or
\* fetch_relevant_news returns a dict of so many processed articles
NewsOutcomes == {[kind |-> "raises", articles |-> 0]}
                \cup {[kind |-> "dict", articles |-> n] : n \in 0..MaxProcessed}

\* market_data.py lines 15-29: news_data when it has articles, else
\* {'articles': []}; the same after an exception
GetNewsAnalysis(outcome) ==
    IF outcome.kind = "dict" /\ outcome.articles > 0
    THEN Value("dict", {"articles"}, outcome.articles)
    ELSE Value("dict", {"articles"}, 0)

\* MarketData (market_data.py lines 9-176) defines no get_sentiment_analysis
HasGetSentimentAnalysis == FALSE

PageInit ==
    /\ page_pc = "idle"
    /\ holdings = 0
    /\ page_idx = 0
    /\ page_value = NoneValue
    /\ rendered = <<>>
    /\ page_error = ""

\* a run of the script begins on the portfolio of the session
PageRun ==
    /\ page_pc = "idle"
    /\ holdings' \in 0..MaxHoldings
    /\ page_pc' = "predictions"
    /\ UNCHANGED <<page_idx, page_value, rendered, page_error>>
    /\ UNCHANGED <<scorerVars, newsVars, sentVars, confVars, moodVars, predVars, portVars>>

\* main.py lines 61-74: the prediction of the next position, written to the
\* page when there is one
PagePrediction ==
    /\ page_pc = "predictions"
    /\ IF page_idx < holdings
       THEN \E outcome \in PredictionOutcomes :
              LET prediction == GetStockPrediction(outcome)
              IN  /\ page_value' = prediction
                  /\ page_idx' = page_idx + 1
                  /\ IF ~Truthy(prediction)
                     THEN UNCHANGED <<page_pc, rendered, page_error>>
                     ELSE IF {"trend", "confidence", "predicted_change", "predicted_price",
                              "prediction_date"} \subseteq prediction.keys
                     THEN /\ rendered' = Append(rendered, "prediction")
                          /\ UNCHANGED <<page_pc, page_error>>
                     ELSE /\ page_pc' = "raised"
                          /\ page_error' = "KeyError"
                          /\ rendered' = rendered
       ELSE /\ page_pc' = "market"
            /\ page_idx' = 0
            /\ UNCHANGED <<page_value, rendered, page_error>>
    /\ UNCHANGED holdings
    /\ UNCHANGED <<scorerVars, newsVars, sentVars, confVars, moodVars, predVars, portVars>>

\* main.py lines 91-114: the market sentiment block
PageMarketSentiment ==
    /\ page_pc = "market"
    /\ page_value' = GetMarketSentiment
    /\ IF ~Truthy(GetMarketSentiment)
       THEN /\ page_pc' = "news"
            /\ UNCHANGED <<rendered, page_error>>
       ELSE IF {"market_sentiment", "analyzed_symbols"} \subseteq GetMarketSentiment.keys
       THEN /\ page_pc' = "news"
            /\ rendered' = Append(rendered, "market sentiment")
            /\ page_error' = page_error
       ELSE /\ page_pc' = "raised"
            /\ page_error' = "KeyError"
            /\ rendered' = rendered
    /\ UNCHANGED <<holdings, page_idx>>
    /\ UNCHANGED <<scorerVars, newsVars, sentVars, confVars, moodVars, predVars, portVars>>

\* main.py lines 140-162: the news of the next position; the page slices
\* what get_news_analysis returned
PageStockNews ==
    /\ page_pc = "news"
    /\ IF page_idx < holdings
       THEN \E outcome \in NewsOutcomes :
              LET news == GetNewsAnalysis(outcome)
              IN  /\ page_value' = news
                  /\ page_idx' = page_idx + 1
                  /\ IF ~Truthy(news)
                     THEN UNCHANGED <<page_pc, rendered, page_error>>
                     ELSE IF SliceRaises(news)
                     THEN /\ page_pc' = "raised"
                          /\ page_error' = "news[:3] on a dict"
                          /\ rendered' = rendered
                     ELSE /\ rendered' = Append(rendered, "news")
                          /\ UNCHANGED <<page_pc, page_error>>
       ELSE /\ page_pc' = "sentiment"
            /\ page_idx' = 0
            /\ UNCHANGED <<page_value, rendered, page_error>>
    /\ UNCHANGED holdings
    /\ UNCHANGED <<scorerVars, newsVars, sentVars, confVars, moodVars, predVars, portVars>>

\* main.py lines 164-192: the sentiment of the next position; the page calls
\* market_data.get_sentiment_analysis
PageStockSentiment ==
    /\ page_pc = "sentiment"
    /\ IF page_idx < holdings
       THEN /\ page_idx' = page_idx + 1
            /\ IF ~HasGetSentimentAnalysis
               THEN /\ page_pc' = "raised"
                    /\ page_error' = "AttributeError"
                    /\ UNCHANGED <<page_value, rendered>>
               ELSE /\ page_value' = NoneValue
                    /\ UNCHANGED <<page_pc, rendered, page_error>>
       ELSE /\ page_pc' = "done"
            /\ UNCHANGED <<page_idx, page_value, rendered, page_error>>
    /\ UNCHANGED holdings
    /\ UNCHANGED <<scorerVars, newsVars, sentVars, confVars, moodVars, predVars, portVars>>

\* ------------------------------- MarketPredictor and MarketData, prices

\* A price history: None, a frame of `rows` rows with the OHLCV columns and
\* finite prices (what yfinance gives), or a "badframe" that lacks a column.
History(kind, rows) == [kind |-> kind, rows |-> rows]

NoHistory == History("unset", 0)

EmptyFrame == History("frame", 0)

\* the frames a fetch attempt can be answered with
Frames == {History("frame", n) : n \in {MinRows, MinRows + LongWindow - 2,
                                        MinRows + LongWindow - 1, MinRows + LongWindow + 10}}

\* the histories train and predict_trend are called with
Histories == {History("None", 0), EmptyFrame, History("badframe", MinRows + LongWindow)}
             \cup Frames

\* lines 18-24: the rows dropna leaves; the 20-row mean is NaN on the first
\* 19 rows, the other windows are shorter
FeatureRows(h) == IF h.rows >= LongWindow THEN h.rows - (LongWindow - 1) ELSE 0

\* a minimum of one row more
EnoughRowsOneMore(n) == n >= MinRows + 1

\* line 26: not len(df) < 30
EnoughRows(n) == n >= MinRows

\* prepare_features(data), lines 12-37: whether it returns X, y rather than
\* None, None; a missing column raises and the except clause returns None
PrepareFeatures(h) == h.kind = "frame" /\ EnoughRows(FeatureRows(h))

\* train(historical_data), lines 39-57: what it returns
Train(h) ==
    IF h.kind = "None" \/ (h.kind = "frame" /\ h.rows = 0) THEN FALSE
    ELSE PrepareFeatures(h)

\* the model and the scaler: not fitted, or fitted on a history of `rows` rows
Fitted(is_fitted, rows) == [fitted |-> is_fitted, rows |-> rows]

\* lines 50-53: train fits the scaler and the model when it returns True
FitOn(f, h) == IF Train(h) THEN Fitted(TRUE, h.rows) ELSE f

\* what predict_trend hands to its caller; `change` is predicted_change in
\* hundredths of a percent
Forecast(kind, trend, change, confidence) ==
    [kind |-> kind, trend |-> trend, predicted_change |-> change,
     confidence |-> confidence]

NoForecast == Forecast("None", "", 0, Ratio(0, 1))

RaisedForecast == Forecast("raised", "", 0, Ratio(0, 1))

UnsetForecast == Forecast("unset", "", 0, Ratio(0, 1))

\* the changes the fitted model predicts, in hundredths of a percent
Changes == {-250, -100, -99, -1, 0, 1, 100, 101, 250, 600}

\* thresholds that put a change of exactly -1% with the Bearish
TrendClosedBelow(change) ==
    IF change > 100 THEN "Strong Bullish"
    ELSE IF change > 0 THEN "Bullish"
    ELSE IF change >= -100 THEN "Bearish"
    ELSE "Strong Bearish"

\* lines 75-82: the label of predicted_change (1% is 100 hundredths)
Trend(change) ==
    IF change > 100 THEN "Strong Bullish"
    ELSE IF change > 0 THEN "Bullish"
    ELSE IF change > -100 THEN "Bearish"
    ELSE "Strong Bearish"

Max(a, b) == IF a >= b THEN a ELSE b

\* line 84: abs(min(max(predicted_change / 5, 0), 1))
ConfidenceScore(change) == Ratio(Min(Max(change, 0), 500), 500)

\* an except clause that passes the exception on
PredictOnExceptionRaise == RaisedForecast

\* lines 95-97: the except clause of predict_trend
PredictOnException == NoForecast

\* predict_trend(historical_data), lines 59-97, on a predictor whose model
\* predicts `change`; scaler.transform raises on a scaler that is not fitted
PredictTrend(f, h, change) ==
    IF h.kind = "None" \/ (h.kind = "frame" /\ h.rows = 0) THEN NoForecast
    ELSE IF ~PrepareFeatures(h) THEN NoForecast
    ELSE IF ~f.fitted THEN PredictOnException
    ELSE Forecast("dict", Trend(change), change, ConfidenceScore(change))

PredInit ==
    /\ pred_call = "none"
    /\ stock_pc = "idle"
    /\ attempt = 0
    /\ stock_log = <<>>
    /\ stock_data = NoHistory
    /\ fitted = Fitted(FALSE, 0)
    /\ pred_history = NoHistory
    /\ train_result = "unset"
    /\ forecast = UnsetForecast

\* no call is under way
PredIdle ==
    /\ stock_pc # "attempt"
    /\ ~(pred_call = "get_stock_prediction" /\ forecast.kind = "unset")

\* a direct call of train(historical_data)
CallTrain ==
    /\ PredIdle
    /\ \E h \in Histories :
         /\ pred_history' = h
         /\ train_result' = IF Train(h) THEN "True" ELSE "False"
         /\ fitted' = FitOn(fitted, h)
    /\ pred_call' = "train"
    /\ forecast' = NoForecast
    /\ UNCHANGED <<stock_pc, attempt, stock_log, stock_data>>
    /\ UNCHANGED <<scorerVars, newsVars, sentVars, confVars, moodVars, pageVars,
                   portVars>>

\* a direct call of predict_trend(historical_data)
CallPredictTrend ==
    /\ PredIdle
    /\ \E h \in Histories, change \in Changes :
         /\ pred_history' = h
         /\ forecast' = PredictTrend(fitted, h, change)
    /\ pred_call' = "predict_trend"
    /\ train_result' = "unset"
    /\ UNCHANGED <<stock_pc, attempt, stock_log, stock_data, fitted>>
    /\ UNCHANGED <<scorerVars, newsVars, sentVars, confVars, moodVars, pageVars,
                   portVars>>

\* get_stock_data is called, on its own or by get_stock_prediction (line 83)
CallGetStockData ==
    /\ PredIdle
    /\ pred_call' \in {"get_stock_data", "get_stock_prediction"}
    /\ stock_pc' = "attempt"
    /\ attempt' = 0
    /\ stock_log' = <<>>
    /\ stock_data' = NoHistory
    /\ pred_history' = NoHistory
    /\ train_result' = "unset"
    /\ forecast' = UnsetForecast
    /\ UNCHANGED fitted
    /\ UNCHANGED <<scorerVars, newsVars, sentVars, confVars, moodVars, pageVars,
                   portVars>>

\* what ticker.history does in one attempt
AttemptOutcomes == {[kind |-> "raised", data |-> EmptyFrame],
                    [kind |-> "empty", data |-> EmptyFrame]}
                   \cup {[kind |-> "data", data |-> h] : h \in Frames}

\* a wait after every failed attempt, the last one included
SleepsAfterAlways(kind, n) == kind = "raised"

\* lines 66-68: time.sleep(1) in the except clause, when attempt < 2
SleepsAfter(kind, n) == kind = "raised" /\ n < MaxAttempts - 1

\* one pass of the loop of lines 57-68
StockAttempt ==
    /\ stock_pc = "attempt"
    /\ attempt < MaxAttempts
    /\ \E o \in AttemptOutcomes :
         IF o.kind = "data"
         THEN /\ stock_data' = o.data
              /\ stock_log' = Append(stock_log, "data")
              /\ stock_pc' = "done"
              /\ attempt' = attempt
         ELSE /\ stock_log' = IF SleepsAfter(o.kind, attempt)
                              THEN stock_log \o <<o.kind, "sleep">>
                              ELSE Append(stock_log, o.kind)
              /\ attempt' = attempt + 1
              /\ UNCHANGED <<stock_pc, stock_data>>
    /\ UNCHANGED <<pred_call, fitted, pred_history, train_result, forecast>>
    /\ UNCHANGED <<scorerVars, newsVars, sentVars, confVars, moodVars, pageVars,
                   portVars>>

\* lines 70-71: the loop is over, an empty frame is returned
StockGiveUp ==
    /\ stock_pc = "attempt"
    /\ attempt = MaxAttempts
    /\ stock_data' = EmptyFrame
    /\ stock_pc' = "done"
    /\ UNCHANGED <<pred_call, attempt, stock_log, fitted, pred_history, train_result,
                   forecast>>
    /\ UNCHANGED <<scorerVars, newsVars, sentVars, confVars, moodVars, pageVars,
                   portVars>>

\* get_stock_prediction, lines 84-96, on the data get_stock_data returned
PredictFromData ==
    /\ stock_pc = "done"
    /\ pred_call = "get_stock_prediction"
    /\ forecast.kind = "unset"
    /\ pred_history' = stock_data
    /\ IF stock_data.rows = 0
       THEN /\ forecast' = NoForecast
            /\ UNCHANGED <<fitted, train_result>>
       ELSE /\ train_result' = IF Train(stock_data) THEN "True" ELSE "False"
            /\ fitted' = FitOn(fitted, stock_data)
            /\ \E change \in Changes :
                 forecast' = IF Train(stock_data)
                             THEN PredictTrend(FitOn(fitted, stock_data), stock_data, change)
                             ELSE NoForecast
    /\ UNCHANGED <<pred_call, stock_pc, attempt, stock_log, stock_data>>
    /\ UNCHANGED <<scorerVars, newsVars, sentVars, confVars, moodVars, pageVars,
                   portVars>>

\* ------------------------------------------------------ PortfolioManager

\* the symbol strings add_position and remove_position are called with
SymbolStrings == {"AAPL", "aapl", "MSFT", "msft"}

\* str.upper() on those strings
UpperCase == [AAPL |-> "AAPL", aapl |-> "AAPL", MSFT |-> "MSFT", msft |-> "MSFT"]

Upper(symbol) == UpperCase[symbol]

\* a shares or entry_price argument: a number, or text float() rejects
Number(n) == [kind |-> "number", value |-> n]

NotANumber == [kind |-> "text", value |-> 0]

SharesArguments == {Number(10), Number(25), NotANumber}

PriceArguments == {Number(100), NotANumber}

\* lines 62-66: a row of self.holdings
Position(symbol, shares, entry_price) ==
    [Symbol |-> symbol, Shares |-> shares, EntryPrice |-> entry_price]

\* self.holdings['Symbol'].values
SymbolsOf(rows) == {rows[i].Symbol : i \in DOMAIN rows}

\* a check that lets every symbol through
AlreadyHeldNever(rows, symbol) == FALSE

\* line 58: not self.holdings.empty and symbol in self.holdings['Symbol'].values
AlreadyHeld(rows, symbol) == rows # <<>> /\ symbol \in SymbolsOf(rows)

\* line 84: self.holdings[self.holdings['Symbol'] != symbol]
Without(rows, symbol) == SelectSeq(rows, LAMBDA r : r.Symbol # symbol)

\* a call: its arguments as given, what it returned, self.holdings and the
\* file before it, and how its save_portfolio went ("none": not called)
Call(op, symbol, result, before, save) ==
    [op |-> op, symbol |-> symbol, result |-> result, before |-> before, save |-> save]

NoCall == Call("none", "", FALSE, <<>>, "none")

\* a portfolio that starts empty: no portfolio.json, or one holding []
PortInit ==
    /\ self_holdings = <<>>
    /\ saved_file = <<>>
    /\ last_call = NoCall
    /\ prev_call = NoCall

\* save_portfolio, lines 13-27: "ok" writes the rows and returns True,
\* "fail" is an exception of open or json.dump and returns False
SaveOutcomes == {"ok", "fail"}

\* add_position(symbol, shares, entry_price), lines 50-74
AddPosition ==
    \E symbol \in SymbolStrings, shares \in SharesArguments,
       entry_price \in PriceArguments, save \in SaveOutcomes :
        /\ prev_call' = last_call
        /\ IF shares.kind # "number" \/ entry_price.kind # "number"
           THEN /\ last_call' = Call("add", symbol, FALSE, self_holdings, "none")
                /\ UNCHANGED <<self_holdings, saved_file>>
           ELSE IF AlreadyHeld(self_holdings, Upper(symbol))
           THEN /\ last_call' = Call("add", symbol, FALSE, self_holdings, "none")
                /\ UNCHANGED <<self_holdings, saved_file>>
           ELSE /\ self_holdings' =
                      Append(self_holdings,
                             Position(Upper(symbol), shares.value, entry_price.value))
                /\ saved_file' = IF save = "ok" THEN self_holdings' ELSE saved_file
                /\ last_call' = Call("add", symbol, save = "ok", self_holdings, save)
        /\ UNCHANGED <<scorerVars, newsVars, sentVars, confVars, moodVars, pageVars,
                       predVars>>

\* remove_position(symbol), lines 76-95
RemovePosition ==
    \E symbol \in SymbolStrings, save \in SaveOutcomes :
        /\ prev_call' = last_call
        /\ IF self_holdings = <<>>
           THEN /\ last_call' = Call("remove", symbol, FALSE, self_holdings, "none")
                /\ UNCHANGED <<self_holdings, saved_file>>
           ELSE /\ self_holdings' = Without(self_holdings, symbol)
                /\ IF Len(self_holdings') = Len(self_holdings)
                   THEN /\ last_call' =
                              Call("remove", symbol, FALSE, self_holdings, "none")
                        /\ UNCHANGED saved_file
                   ELSE /\ saved_file' = IF save = "ok" THEN self_holdings' ELSE saved_file
                        /\ last_call' =
                              Call("remove", symbol, save = "ok", self_holdings, save)
        /\ UNCHANGED <<scorerVars, newsVars, sentVars, confVars, moodVars, pageVars,
                       predVars>>

\* --------------------------------------------------------- specifications

ScorerNext ==
    \/ CallSimpleAnalysis /\ UNCHANGED <<newsVars, sentVars, confVars, moodVars, pageVars, predVars, portVars>>
    \/ CallIsRelevantNews /\ UNCHANGED <<newsVars, sentVars, confVars, moodVars, pageVars, predVars, portVars>>

\* the scorers called on their own, on every input
NewsIdle == NewsInit /\ ~deepseek_api_key

InitScorers == ScorerInit /\ NewsIdle /\ SentimentInit /\ ConfIdle /\ MoodInit
               /\ PageInit /\ PredInit /\ PortInit

SpecScorers == InitScorers /\ [][ScorerNext]_vars

ScorerIdle ==
    /\ title = <<>>
    /\ description = <<>>
    /\ date_published = NoDate
    /\ simple_result = UnsetVerdict
    /\ relevant_result = "unset"

NewsNext ==
    \/ FetchRelevantNews
    \/ AnalyzeArticle
    \/ PostRequest
    \/ Fallback
    \/ Except
    \/ Collect
    \/ FetchReturn

\* one call of fetch_relevant_news
InitNews == ScorerIdle /\ NewsInit /\ SentimentInit /\ ConfIdle /\ MoodInit
               /\ PageInit /\ PredInit /\ PortInit

SpecNews == InitNews /\ [][NewsNext]_vars

SentimentNext ==
    \/ AnalyzeMarketSentiment
    \/ ScoreArticle
    \/ SentimentReturn

\* one call of analyze_market_sentiment
InitSentiment == ScorerIdle /\ NewsIdle /\ SentimentInit /\ ConfIdle /\ MoodInit
               /\ PageInit /\ PredInit /\ PortInit

SpecSentiment == InitSentiment /\ [][SentimentNext]_vars

ConfidenceNext == CallConfidence

\* the confidence computed on its own, for every count and mean
InitConfidence == ScorerIdle /\ NewsIdle /\ SentimentInit /\ ConfInit /\ MoodInit
               /\ PageInit /\ PredInit /\ PortInit

SpecConfidence == InitConfidence /\ [][ConfidenceNext]_vars

MoodNext ==
    \/ GetMarketMood
    \/ MoodSymbol
    \/ MoodReturn

\* one call of get_market_mood
InitMood == ScorerIdle /\ NewsIdle /\ SentimentInit /\ ConfIdle /\ MoodInit
               /\ PageInit /\ PredInit /\ PortInit

SpecMood == InitMood /\ [][MoodNext]_vars

PageNext ==
    \/ PageRun
    \/ PagePrediction
    \/ PageMarketSentiment
    \/ PageStockNews
    \/ PageStockSentiment

\* one run of the page script
InitPage ==
    ScorerIdle /\ NewsIdle /\ SentimentInit /\ ConfIdle /\ MoodInit /\ PageInit
               /\ PredInit /\ PortInit

SpecPage == InitPage /\ [][PageNext]_vars

PredictorNext ==
    \/ CallTrain
    \/ CallPredictTrend
    \/ CallGetStockData
    \/ StockAttempt
    \/ StockGiveUp
    \/ PredictFromData

\* calls of the predictor and of the price entry points, in any order
InitPredictor ==
    ScorerIdle /\ NewsIdle /\ SentimentInit /\ ConfIdle /\ MoodInit /\ PageInit
               /\ PredInit /\ PortInit

SpecPredictor == InitPredictor /\ [][PredictorNext]_vars

PortfolioNext ==
    \/ AddPosition
    \/ RemovePosition

\* calls of add_position and remove_position on a portfolio that starts empty
InitPortfolio ==
    ScorerIdle /\ NewsIdle /\ SentimentInit /\ ConfIdle /\ MoodInit /\ PageInit
               /\ PredInit /\ PortInit

SpecPortfolio == InitPortfolio /\ [][PortfolioNext]_vars

\* ------------------------------------------------------------------ claims

\* the steps of a log that are requests
Requests(l) == {i \in DOMAIN l : l[i] = "request"}

\* _analyze_article has handed a dict to its caller
Classified == analyze_pc = "return" /\ verdict.kind = "dict"

\* the request of the running call failed: it raised (a timeout on a silent
\* endpoint included), answered with a status other than 200, or its content
\* did not parse or lacked a key
RequestFailed ==
    response.kind \in {"exception", "status", "badjson", "missingkey", "silent"}

\* C2: every verdict _analyze_article returns, remote or fallback, carries
\* one of the five market_impact labels.
C2_LabelIsOneOfFive == Classified => verdict.market_impact \in ImpactLabels

\* C3: for an article with title and description, _analyze_article returns
\* the lexicon-fallback verdict, and does not raise, when no key is
\* configured and whenever the request fails in one of the four ways.
C3_FallbackOnEveryFailure ==
    (analyze_pc = "return" /\ ~MissingText(article)
        /\ (~deepseek_api_key \/ RequestFailed))
    => /\ verdict.kind = "dict"
       /\ verdict.market_impact \in ImpactLabels
       /\ verdict = SimpleAnalysis(article.title, article.description)
       /\ log[Len(log)] = "fallback"

\* C3, its case reached: a key is configured, the reply parsed but lacked a
\* key, and the call has returned the fallback's verdict
C3_Witness ==
    /\ analyze_pc = "return"
    /\ deepseek_api_key
    /\ response.kind = "missingkey"
    /\ ~MissingText(article)
    /\ verdict.kind = "dict"

\* C4 as stated: every article handed to _analyze_article, one with an
\* empty description included, gets a verdict record and never None.
C4_NeverNone == analyze_pc = "return" => verdict.kind = "dict"

\* C4 amended: _analyze_article returns a verdict record exactly for the
\* articles that have both a title and a description, and None for an
\* article whose title or description is empty.
C4_VerdictIffTextPresent ==
    analyze_pc = "return"
    => /\ (~Empty(article.title) /\ ~Empty(article.description)) => verdict.kind = "dict"
       /\ (Empty(article.title) \/ Empty(article.description)) => verdict = NoneVerdict

\* C4, its case reached: a call on an article with title and description has
\* returned through the fallback
C4_Witness ==
    /\ analyze_pc = "return"
    /\ ~Empty(article.title)
    /\ ~Empty(article.description)
    /\ verdict.kind = "dict"
    /\ log # <<>>
    /\ log[Len(log)] = "fallback"

\* C5: within one _analyze_article call no request is issued without a key;
\* with a key exactly one request is issued, the fallback runs only after
\* that request has failed, and a remote verdict is never followed by a
\* fallback.  (The call that classifies is meant: a call on an article
\* without title or description returns None before either step.)
C5_RemoteThenFallbackOnce ==
    /\ ~deepseek_api_key => (Requests(log) = {} /\ response = NoPostResponse)
    /\ Cardinality(Requests(log)) <= 1
    /\ log \in {<<>>, <<"request">>, <<"fallback">>,
                <<"request", "fallback">>, <<"request", "remote verdict">>}
    /\ (log # <<>> /\ deepseek_api_key) => log[1] = "request"
    /\ (analyze_pc \in {"fallback", "except"} /\ deepseek_api_key)
          => (log = <<"request">> /\ RequestFailed)
    /\ (log = <<"request", "fallback">>) => RequestFailed
    /\ (log = <<"request", "remote verdict">>)
          => (response.kind = "ok" /\ analyze_pc = "return")
    /\ (Classified /\ deepseek_api_key) => Cardinality(Requests(log)) = 1
    /\ (Classified /\ ~deepseek_api_key) => log = <<"fallback">>
    /\ (analyze_pc = "return" /\ verdict.kind = "None") => log = <<>>

\* C5, its case reached: with a key, one request failed and the fallback ran
C5_Witness ==
    /\ Classified
    /\ deepseek_api_key
    /\ log = <<"request", "fallback">>

\* C8, in every state: fetch_relevant_news has not raised, it returns a dict,
\* and the dict's articles are empty after a transport exception, a status
\* other than 200 and an empty article list; a loop that ran visited every
\* article of articles[:4]
C8_StateInv ==
    /\ fetch_result.kind # "raised"
    /\ fetch_pc = "done" => fetch_result.kind = "dict"
    /\ (fetch_pc = "done"
          /\ (news_response.kind \in {"exception", "status", "badjson"}
                \/ news_response.count = 0))
       => fetch_result.articles = <<>>
    /\ (fetch_pc = "done" /\ news_response.kind = "ok" /\ news_response.count > 0)
       => (idx = LoopLimit /\ fetch_result.articles = processed_articles)

\* C8, in every step: an exception while one article is processed leaves the
\* articles kept so far in place and the loop goes on with the next one
C8_StepInv ==
    errors' # errors
    => /\ processed_articles' = processed_articles
       /\ idx' = idx + 1
       /\ fetch_pc' = "loop"
       /\ fetch_result' = fetch_result

\* C8: fetch_relevant_news never raises; on a transport exception, a status
\* other than 200 or an empty article list its articles are empty, and an
\* exception while one article is processed only drops that article.
C8_NeverRaises == [](C8_StateInv) /\ [][C8_StepInv]_vars

\* C8, its case reached: the call returned articles although the processing
\* of another article raised
C8_Witness ==
    /\ fetch_pc = "done"
    /\ errors >= 1
    /\ Len(fetch_result.articles) >= 1

\* C9: no article the relevance filter would reject (fewer than 2 keywords,
\* or older than the recency window) is classified.
C9_ClassifiedOnlyIfRelevant ==
    Classified => IsRelevantNews(article.title, article.description, article.publishedAt)

\* how many phrases of a tier are found in the lowercased combined text
TierCount(i) ==
    LET text == LowerText(CombinedText(title, description))
        phrases == ImpactPhrases(ImpactLevels[i])
    IN  Cardinality({k \in DOMAIN phrases : Contains(text, phrases[k])})

Tiers == DOMAIN ImpactLevels

\* tier i has matched more phrases than every other tier
StrictlyHighest(i) == \A j \in Tiers \ {i} : TierCount(j) < TierCount(i)

\* two or more tiers share the highest count, and it is not zero
TiedAtTop ==
    \E i, j \in Tiers :
        /\ i # j
        /\ TierCount(i) = TierCount(j)
        /\ TierCount(i) > 0
        /\ \A k \in Tiers : TierCount(k) <= TierCount(i)

\* C6: _simple_analysis labels the text with the tier whose matched-phrase
\* count is strictly highest, and Ambivalent when no phrase of any tier
\* matches.
C6_StrictlyHighestTierWins ==
    simple_result.kind = "dict"
    => /\ \A i \in Tiers :
            StrictlyHighest(i) => simple_result.market_impact = ImpactLevels[i]
       /\ (\A i \in Tiers : TierCount(i) = 0) => simple_result.market_impact = "Ambivalent"

\* C6, its case reached: a tier other than the first of the table wins with
\* two phrases against tiers that matched one
C6_Witness ==
    /\ simple_result.kind = "dict"
    /\ \E i \in Tiers \ {1} :
         /\ StrictlyHighest(i)
         /\ TierCount(i) = 2
         /\ TierCount(1) = 1
         /\ simple_result.market_impact = ImpactLevels[i]

\* C7: whenever two or more tiers share the highest non-zero match count,
\* _simple_analysis answers Ambivalent.
C7_TiesAreAmbivalent ==
    (simple_result.kind = "dict" /\ TiedAtTop)
    => simple_result.market_impact = "Ambivalent"

\* the market keywords found in the lowercased title + ' ' + description
KeywordsFound ==
    {k \in DOMAIN MarketKeywords :
        Contains(LowerText(title \o description), MarketKeywords[k])}

\* the publish time is known and lies within the last 7 days
WithinRecency ==
    date_published.kind = "timestamp" /\ date_published.age <= RecencyDays

\* C10 as stated: _is_relevant_news accepts an article exactly when at least
\* 2 distinct market keywords are found in the lowercased title+description
\* and its publish time is within the last 7 days.
C10_AcceptsIffKeywordsAndRecent ==
    relevant_result # "unset"
    => (relevant_result = "True" <=> (Cardinality(KeywordsFound) >= 2 /\ WithinRecency))

\* C10 amended: _is_relevant_news accepts an article exactly when its title
\* and its description are both non-empty, at least 2 distinct market
\* keywords are found in the lowercased title+description and its publish
\* time is within the last 7 days; exactly 1 keyword is rejected, exactly 2
\* is accepted for such an article, and an article older than 7 days is
\* rejected whatever its keyword count.
C10_AcceptsIffTextKeywordsAndRecent ==
    relevant_result # "unset"
    => /\ relevant_result = "True"
            <=> /\ ~Empty(title)
                /\ ~Empty(description)
                /\ Cardinality(KeywordsFound) >= 2
                /\ WithinRecency
       /\ Cardinality(KeywordsFound) = 1 => relevant_result = "False"
       /\ (Cardinality(KeywordsFound) = 2 /\ ~Empty(title) /\ ~Empty(description)
             /\ WithinRecency) => relevant_result = "True"
       /\ (date_published.kind = "timestamp" /\ date_published.age > RecencyDays)
             => relevant_result = "False"

\* C10, its case reached: an article with exactly 2 keywords, published 7
\* days ago, has been accepted
C10_Witness ==
    /\ relevant_result = "True"
    /\ Cardinality(KeywordsFound) = 2
    /\ date_published = DateAged(RecencyDays)

\* the five sentiment directions
Directions == {"Strong Bullish", "Bullish", "Neutral", "Bearish", "Strong Bearish"}

\* C1: whatever the news API answers (a transport exception, a status other
\* than 200, an empty article list, articles that fail scoring),
\* analyze_market_sentiment ends by returning a sentiment record; it never
\* raises and never returns None.
C1_AlwaysReturnsRecord ==
    /\ sent_result.kind \in {"unset", "dict"}
    /\ sent_pc = "done"
       => /\ sent_result.kind = "dict"
          /\ sent_result.symbol = "XYZ"
          /\ sent_result.sentiment_direction \in Directions
          /\ {"symbol", "average_sentiment", "sentiment_direction", "confidence"}
                \subseteq sent_result.keys
    /\ (sent_pc = "done"
          /\ (sent_response.kind \in {"exception", "status", "badjson"}
                \/ sent_response.count = 0 \/ sentiments = <<>>))
       => sent_result = NeutralSentiment
    /\ sent_pc # "done" => sent_result.kind = "unset"

\* C1, its case reached: every relevant article of the response failed
\* scoring and the call has returned
C1_Witness ==
    /\ sent_pc = "done"
    /\ relevant_articles # <<>>
    /\ sentiments = <<>>
    /\ sent_result.kind = "dict"

\* the direction the threshold table gives a mean m = num/den (den > 0), in
\* tenths: 10 m >= 5, 10 m >= 2, 10 m <= -5, 10 m <= -2
TableDirection(m) ==
    CASE 10 * m.num >= 5 * m.den -> "Strong Bullish"
      [] 10 * m.num < 5 * m.den /\ 10 * m.num >= 2 * m.den -> "Bullish"
      [] 10 * m.num <= -5 * m.den -> "Strong Bearish"
      [] 10 * m.num > -5 * m.den /\ 10 * m.num <= -2 * m.den -> "Bearish"
      [] OTHER -> "Neutral"

\* C11: the sentiment_direction of every record analyze_market_sentiment
\* returns is the threshold table's direction of its average_sentiment:
\* m >= 0.5 Strong Bullish, 0.2 <= m < 0.5 Bullish, m <= -0.5 Strong
\* Bearish, -0.5 < m <= -0.2 Bearish, otherwise Neutral.
C11_DirectionFollowsTable ==
    sent_pc = "done"
    => sent_result.sentiment_direction = TableDirection(sent_result.average_sentiment)

\* C11, its case reached: a computed record whose mean is exactly 0.5 has
\* been returned as Strong Bullish
C11_Witness ==
    /\ sent_pc = "done"
    /\ sentiments # <<>>
    /\ 2 * sent_result.average_sentiment.num = sent_result.average_sentiment.den
    /\ sent_result.sentiment_direction = "Strong Bullish"

\* C11, the lower boundary reached: a computed record whose mean is exactly
\* -0.2 has been returned as Bearish
C11_WitnessBearish ==
    /\ sent_pc = "done"
    /\ sentiments # <<>>
    /\ 5 * sent_result.average_sentiment.num = -sent_result.average_sentiment.den
    /\ sent_result.sentiment_direction = "Bearish"

\* C12: the confidence analyze_market_sentiment computes as
\* min(article_count / 10, 1.0) * (1 + |pooled_mean|) * 100 lies in [0, 100]
\* for every number of relevant articles and every pooled mean in [-1, 1].
C12_ConfidenceWithin100 ==
    conf_pc = "done"
    => /\ confidence_score.num >= 0
       /\ confidence_score.num <= 100 * confidence_score.den

\* the fields of a verdict computed from one or more articles, lines 286-295
ComputedFields ==
    {"symbol", "average_sentiment", "sentiment_direction", "confidence",
     "news_count", "key_insights", "market_impact", "timestamp"}

\* analyze_market_sentiment has returned without having scored an article
NothingScored == sent_pc = "done" /\ sentiments = <<>>

\* C13: when no relevant article is scored, analyze_market_sentiment
\* returns the neutral verdict with count 0, confidence 0 and direction
\* Neutral, and that verdict carries the same fields (news_count and
\* key_insights included) as a verdict computed from articles.
C13_NeutralHasComputedFields ==
    /\ NothingScored
       => /\ sent_result.kind = "dict"
          /\ sent_result.count = 0
          /\ sent_result.confidence.num = 0
          /\ sent_result.sentiment_direction = "Neutral"
          /\ sent_result.keys = ComputedFields
    /\ (sent_pc = "done" /\ sentiments # <<>>) => sent_result.keys = ComputedFields

\* the part of C13 the code keeps: the neutral verdict's values
C13_NeutralValues ==
    NothingScored
    => /\ sent_result.kind = "dict"
       /\ sent_result.count = 0
       /\ sent_result.confidence.num = 0
       /\ sent_result.average_sentiment.num = 0
       /\ sent_result.sentiment_direction = "Neutral"
       /\ sent_result.items = <<>>

\* the (score, weight) pairs an article put into sentiments: none when
\* scoring its title raised, the title's alone when scoring its description
\* raised, else the title's and the description's
PairsOf(a) ==
    IF a.raises = "title" THEN 0
    ELSE IF a.raises = "description" \/ Empty(a.description) THEN 1
    ELSE 2

RECURSIVE PairsBefore(_)
\* the pairs the relevant articles before the i-th put into sentiments
PairsBefore(i) ==
    IF i = 1 THEN 0 ELSE PairsBefore(i - 1) + PairsOf(relevant_articles[i - 1])

\* the weight the title score of the i-th relevant article has in sentiments
TitleWeightAt(i) == sentiments[PairsBefore(i) + 1][2]

\* the market keywords matched in the i-th relevant article
KeywordsAt(i) ==
    RelevantKeywords(relevant_articles[i].title, relevant_articles[i].description)

\* C14: of two relevant articles with the same title score that
\* analyze_market_sentiment has scored, the one matching more market
\* keywords has the strictly larger weight in the pooled mean.
C14_WeightGrowsWithKeywords ==
    \A i, j \in DOMAIN relevant_articles :
        (/\ relevant_articles[i].raises # "title"
         /\ relevant_articles[j].raises # "title"
         /\ relevant_articles[i].title_score = relevant_articles[j].title_score
         /\ KeywordsAt(i) > KeywordsAt(j))
        => TitleWeightAt(i) > TitleWeightAt(j)

\* the weights the code does give: every title score of a relevant article
\* weighs 1.5 + |score|, whatever keywords the article matches
C14_WeightIgnoresKeywords ==
    \A i \in DOMAIN relevant_articles :
        relevant_articles[i].raises # "title"
        => /\ sentiments[PairsBefore(i) + 1][1] = relevant_articles[i].title_score
           /\ TitleWeightAt(i) = 15 + Abs(relevant_articles[i].title_score)

\* the insights of the record analyze_market_sentiment returned
Insights == sent_result.items

\* the relevant articles whose title was scored
TitleScored == {i \in DOMAIN relevant_articles : relevant_articles[i].raises # "title"}

\* the i-th relevant article is one of the insights
Retained(i) ==
    \E k \in DOMAIN Insights :
        /\ Insights[k].title = relevant_articles[i].title
        /\ Insights[k].score = relevant_articles[i].title_score
        /\ Insights[k].published_at = relevant_articles[i].publishedAt

\* C15: the insights analyze_market_sentiment returns are in descending
\* order of absolute title score, recency decides only between equal
\* absolute scores, and no article left out has a larger absolute score
\* than an article retained.
C15_InsightsByAbsoluteScore ==
    (sent_pc = "done" /\ sentiments # <<>>)
    => /\ \A k, l \in DOMAIN Insights :
            k < l => \/ Abs(Insights[k].score) > Abs(Insights[l].score)
                     \/ /\ Abs(Insights[k].score) = Abs(Insights[l].score)
                        /\ Insights[k].published_at.age <= Insights[l].published_at.age
       /\ \A i \in TitleScored : \A k \in DOMAIN Insights :
            ~Retained(i) => Abs(relevant_articles[i].title_score) <= Abs(Insights[k].score)

\* the order the code does give: the insights are the first three of the
\* significant articles (|score| > 0.3) by publish time, latest first, the
\* absolute score deciding only between equal publish times
C15_InsightsByRecency ==
    (sent_pc = "done" /\ sentiments # <<>>)
    => /\ Len(Insights) = Min(3, Len(significant_news))
       /\ \A k \in DOMAIN Insights : Abs(Insights[k].score) > 3
       /\ \A k, l \in DOMAIN Insights :
            k < l => \/ Insights[k].published_at.age < Insights[l].published_at.age
                     \/ /\ Insights[k].published_at.age = Insights[l].published_at.age
                        /\ Abs(Insights[k].score) >= Abs(Insights[l].score)

\* the records of the symbols that yielded one or more posts, in order
Yielding == SelectSeq(social_results, LAMBDA r : r.count > 0)

RECURSIVE SumCounts(_)
\* the posts of a list of records
SumCounts(rs) == IF rs = <<>> THEN 0 ELSE Head(rs).count + SumCounts(Tail(rs))

RECURSIVE SumConfidences(_)
\* the confidences of a list of records, added up
SumConfidences(rs) ==
    IF rs = <<>> THEN Ratio(0, 1)
    ELSE RAdd(Head(rs).confidence, SumConfidences(Tail(rs)))

\* C16: get_market_mood returns None for an empty symbol list and for a
\* list whose symbols all yield zero posts; when a symbol yields posts it
\* returns a mood record, and the symbols with zero posts are left out of
\* analyzed_symbols, total_posts and average_confidence.
C16_NoMoodWithoutPosts ==
    (mood_pc = "done" /\ symbols.kind = "list")
    => /\ Len(social_results) = symbols.count
       /\ Yielding = <<>> => mood_result.kind = "None"
       /\ Yielding # <<>>
          => /\ mood_result.kind = "dict"
             /\ mood_result.analyzed_symbols = Len(Yielding)
             /\ mood_result.total_posts = SumCounts(Yielding)
             /\ mood_result.average_confidence
                  = RDiv(SumConfidences(Yielding), Ratio(Len(Yielding), 1))

\* C16, its case reached: a list with a symbol of zero posts and a symbol
\* with posts has been given a mood record over fewer symbols than listed
C16_Witness ==
    /\ mood_pc = "done"
    /\ mood_result.kind = "dict"
    /\ \E i \in DOMAIN social_results : social_results[i].count = 0
    /\ mood_result.analyzed_symbols < symbols.count

\* C16, the other cases reached: None for a list of two or more symbols
\* that all have zero posts, and None for the empty list
C16_WitnessAllZero ==
    /\ mood_pc = "done"
    /\ symbols.kind = "list"
    /\ symbols.count >= 2
    /\ mood_result.kind = "None"

C16_WitnessEmptyList ==
    /\ mood_pc = "done"
    /\ symbols = Symbols("list", 0)
    /\ mood_result.kind = "None"

\* w_i = (confidence_i / 100) * count_i
MoodWeight(r) == RMul(RDiv(r.confidence, Ratio(100, 1)), Ratio(r.count, 1))

RECURSIVE SumMoodWeights(_)
SumMoodWeights(rs) ==
    IF rs = <<>> THEN Ratio(0, 1) ELSE RAdd(MoodWeight(Head(rs)), SumMoodWeights(Tail(rs)))

RECURSIVE SumMoodScores(_)
\* the sum of s_i * w_i
SumMoodScores(rs) ==
    IF rs = <<>> THEN Ratio(0, 1)
    ELSE RAdd(RMul(Head(rs).average_sentiment, MoodWeight(Head(rs))),
              SumMoodScores(Tail(rs)))

\* sum(s_i * w_i) / sum(w_i), the denominator 1 when the weights sum to zero
WeightedMean(rs) ==
    RDiv(SumMoodScores(rs),
         IF SumMoodWeights(rs).num > 0 THEN SumMoodWeights(rs) ELSE Ratio(1, 1))

\* C17: the market_sentiment of a mood record is sum(s_i * w_i) / sum(w_i)
\* over the contributing symbols, w_i = (confidence_i / 100) * count_i; with
\* one contributing symbol it is that symbol's average_sentiment.
C17_NormalisedByWeightSum ==
    (mood_pc = "done" /\ mood_result.kind = "dict")
    => /\ mood_result.market_sentiment = WeightedMean(Yielding)
       /\ Len(Yielding) = 1
          => mood_result.market_sentiment
               = Reduced(Yielding[1].average_sentiment.num,
                         Yielding[1].average_sentiment.den)

\* what the code divides by instead: the summed confidences times the
\* number of contributing symbols
C17_NormalisedByConfidenceTimesSymbols ==
    (mood_pc = "done" /\ mood_result.kind = "dict")
    => mood_result.market_sentiment
         = RDiv(SumMoodScores(Yielding),
                RMul(SumConfidences(Yielding), Ratio(Len(Yielding), 1)))

\* C18: analyze_market_sentiment writes its verdict into the cache: once
\* the call for a symbol has returned, the cache holds an entry for it
\* (from which a second call within 15 minutes would be served).
C18_CacheHoldsEntry == sent_pc = "done" => sent_result.symbol \in cache

\* what the code does: the cache stays as __init__ made it
C18_CacheStaysEmpty == cache = {}

\* C19: every network call carries a timeout, so that no call of a pipeline
\* run waits for ever on an endpoint that never answers: neither the news
\* search of fetch_relevant_news nor the text-generation request.
C19_NoCallWaitsForever == fetch_pc # "blocked" /\ analyze_pc # "blocked"

\* C19 for the news search of analyze_market_sentiment
C19_NoSentimentCallWaitsForever == sent_pc # "blocked"

\* the one call that does carry a timeout: on a silent endpoint the
\* text-generation request ends in the fallback verdict
C19_PostTimesOut ==
    /\ analyze_pc # "blocked"
    /\ (analyze_pc = "return" /\ response.kind = "silent")
       => (verdict.kind = "dict" /\ log = <<"request", "fallback">>)

\* C20: a run of the page never ends in an exception: what each entry
\* point it calls (prediction, market sentiment, news analysis, per-symbol
\* sentiment) returns is consumed by the page without one, for every
\* portfolio and whatever the external services return.
C20_PageNeverRaises == page_pc # "raised" /\ page_error = ""

\* what the code does: a run on a portfolio with a position ends at the
\* first position's news block; only a run on an empty portfolio ends well
C20_RaisesAtFirstNewsBlock ==
    /\ page_pc = "raised" => (holdings > 0 /\ page_error = "news[:3] on a dict")
    /\ page_pc = "done" => holdings = 0
    /\ page_pc = "sentiment" => holdings = 0
    /\ page_pc \in {"predictions", "market"} => page_error = ""

\* the complete feature rows of the history of the last call, None and a
\* frame without the price columns having none
CompleteRows ==
    IF pred_history.kind = "frame" THEN FeatureRows(pred_history) ELSE 0

\* C21: train returns True exactly on a history with at least 30 complete
\* feature rows; predict_trend returns None on a history with fewer (29, an
\* empty or a missing history included), and a populated forecast on the
\* history the predictor was trained on last.
C21_ThirtyCompleteRows ==
    /\ pred_call = "train" =>
         (train_result = "True" <=> CompleteRows >= MinRows)
    /\ (pred_call = "predict_trend" /\ CompleteRows < MinRows) =>
         forecast = NoForecast
    /\ (pred_call = "predict_trend" /\ CompleteRows >= MinRows
            /\ fitted = Fitted(TRUE, pred_history.rows)) =>
         /\ forecast.kind = "dict"
         /\ forecast.trend \in {"Strong Bullish", "Bullish", "Bearish", "Strong Bearish"}

\* C21 witness: a forecast made from exactly 30 complete rows.
C21_Witness ==
    /\ pred_call = "predict_trend"
    /\ CompleteRows = MinRows
    /\ fitted = Fitted(TRUE, pred_history.rows)
    /\ forecast.kind = "dict"

\* C21 witness: train declines a history of 29 complete rows.
C21_WitnessTwentyNine ==
    /\ pred_call = "train"
    /\ CompleteRows = MinRows - 1
    /\ train_result = "False"

\* a forecast was returned by the last call
Forecasted == forecast.kind = "dict"

\* C22: a predicted change above 1% is labelled Strong Bullish, one in
\* (0%, 1%] Bullish, one in (-1%, 0%] Bearish, and one of -1% or below
\* Strong Bearish; exactly 0% is Bearish, exactly -1% is Strong Bearish.
C22_LabelByThresholds ==
    Forecasted =>
        /\ forecast.trend = "Strong Bullish" <=> forecast.predicted_change > 100
        /\ forecast.trend = "Bullish" <=>
             (forecast.predicted_change > 0 /\ forecast.predicted_change <= 100)
        /\ forecast.trend = "Bearish" <=>
             (forecast.predicted_change > -100 /\ forecast.predicted_change <= 0)
        /\ forecast.trend = "Strong Bearish" <=> forecast.predicted_change <= -100

\* C22 witness: a forecast of exactly -1%.
C22_Witness ==
    /\ Forecasted
    /\ forecast.predicted_change = -100
    /\ forecast.trend = "Strong Bearish"

\* C22 witness: a forecast of exactly 0%.
C22_WitnessZero ==
    /\ Forecasted
    /\ forecast.predicted_change = 0
    /\ forecast.trend = "Bearish"

\* C22 as stated: a change in [-1%, 0%] is Bearish, exactly -1% included.
C22_MinusOneIsBearish ==
    (Forecasted /\ forecast.predicted_change >= -100 /\ forecast.predicted_change <= 0)
        => forecast.trend = "Bearish"

\* the keys of a verdict dict
Keys(v) == DOMAIN v \ {"kind"}

\* C23: every verdict of the lexicon fallback, the one its error branch
\* returns included, carries a confidence field.
C23_FallbackCarriesConfidence ==
    simple_result.kind = "dict" =>
        /\ "confidence" \in Keys(simple_result)
        /\ "confidence" \in Keys(SimpleAnalysisOnError(title))

\* the positions of stock_log that are attempts, in order
AttemptsAt == {i \in DOMAIN stock_log : stock_log[i] # "sleep"}

\* the number of the attempt at position i, counted from 1
AttemptNumber(i) == Cardinality({j \in AttemptsAt : j <= i})

\* C24: get_stock_data makes at most three attempts and returns a frame; it
\* returns the first non-empty history and attempts nothing after it, and an
\* empty frame when three attempts raised or gave no data; it waits only
\* after an attempt that raised, and never after the third.
C24_ThreeAttemptsAtMost ==
    /\ Cardinality(AttemptsAt) <= MaxAttempts
    /\ \A i \in DOMAIN stock_log :
         /\ stock_log[i] = "data" => (i = Len(stock_log) /\ stock_pc = "done")
         /\ stock_log[i] = "sleep" =>
              (i > 1 /\ stock_log[i - 1] = "raised" /\ AttemptNumber(i) < MaxAttempts)
         /\ (stock_log[i] = "raised" /\ AttemptNumber(i) < MaxAttempts) =>
              (i < Len(stock_log) /\ stock_log[i + 1] = "sleep")
    /\ stock_pc = "done" =>
         /\ stock_data.kind = "frame"
         /\ IF \E i \in DOMAIN stock_log : stock_log[i] = "data"
            THEN stock_data.rows > 0
            ELSE /\ stock_data = EmptyFrame
                 /\ Cardinality(AttemptsAt) = MaxAttempts

\* C24 witness: three attempts raised, an empty frame came back.
C24_Witness ==
    /\ stock_pc = "done"
    /\ stock_log = <<"raised", "sleep", "raised", "sleep", "raised">>
    /\ stock_data = EmptyFrame

\* C24 witness: the second attempt gave data after an empty first one.
C24_WitnessSecondAttempt ==
    /\ stock_pc = "done"
    /\ stock_log = <<"empty", "data">>
    /\ stock_data.rows > 0

\* what every state after a call shows: no forecast from a predictor that
\* was never trained, and none from get_stock_prediction without a train
\* that returned True on the fetched history in the same call
ForecastOnlyWhenFitted ==
    /\ (pred_call = "predict_trend" /\ ~fitted.fitted) => forecast = NoForecast
    /\ forecast.kind # "raised"
    /\ (pred_call = "get_stock_prediction" /\ Forecasted) =>
         /\ train_result = "True"
         /\ pred_history = stock_data
         /\ fitted = Fitted(TRUE, stock_data.rows)

\* a train call that returns False leaves the model and the scaler alone
FailedTrainKeepsModel ==
    train_result' = "False" => fitted' = fitted

C29_WitnessFailedTrain ==
    /\ train_result = "False"
    /\ fitted.fitted

\* C29 witness: get_stock_prediction returned a forecast.
C29_WitnessPrediction ==
    /\ pred_call = "get_stock_prediction"
    /\ Forecasted

RECURSIVE SentimentsOf(_)
\* the (score, weight) pairs the loop of lines 234-266 collects from a list
\* of relevant articles
SentimentsOf(articles) ==
    IF articles = <<>> THEN <<>>
    ELSE LET a == Head(articles)
         IN  (IF a.raises = "title" THEN <<>>
              ELSE IF a.raises = "description" \/ Empty(a.description)
              THEN <<TitleSentiment(a)>>
              ELSE <<TitleSentiment(a), DescSentiment(a)>>) \o SentimentsOf(Tail(articles))

RECURSIVE SignificantOf(_)
\* the significant_news the same loop collects
SignificantOf(articles) ==
    IF articles = <<>> THEN <<>>
    ELSE LET a == Head(articles)
         IN  (IF a.raises # "title" /\ Abs(a.title_score) > 3
              THEN <<Significant(a)>> ELSE <<>>) \o SignificantOf(Tail(articles))

\* average_sentiment, direction, confidence and article count of the
\* analysis of a list of relevant articles
Summary(articles) ==
    LET weighted_sentiment == WeightedSentiment(SentimentsOf(articles))
    IN  <<weighted_sentiment, SentimentTrend(weighted_sentiment).direction,
          Confidence(Len(articles), weighted_sentiment), Len(articles)>>

\* its key_insights
TopInsights(articles) ==
    LET sorted == SortNews(SignificantOf(articles))
    IN  SubSeq(sorted, 1, Min(3, Len(sorted)))

\* the relevant articles of the response in the order p
Reordered(p) == [i \in DOMAIN relevant_articles |-> relevant_articles[p[i]]]

Orders == Permutations(DOMAIN relevant_articles)

\* an analysis was computed from the articles of a response
Analysed == sent_pc = "done" /\ sent_response.kind = "ok" /\ sentiments # <<>>

\* the returned analysis is the one the operators above compute
AnalysisOfRelevant ==
    Analysed =>
        /\ Summary(relevant_articles) =
             <<sent_result.average_sentiment, sent_result.sentiment_direction,
               sent_result.confidence, sent_result.count>>
        /\ TopInsights(relevant_articles) = sent_result.items

\* the summary fields alone do not depend on the order
SummaryIgnoresOrder ==
    Analysed => \A p \in Orders : Summary(Reordered(p)) = Summary(relevant_articles)

\* C25: the analysis of any permutation of the fetched articles has the same
\* average_sentiment, direction, confidence, article count and top insights.
C25_AnalysisIgnoresOrder ==
    Analysed =>
        \A p \in Orders :
            /\ Summary(Reordered(p)) =
                 <<sent_result.average_sentiment, sent_result.sentiment_direction,
                   sent_result.confidence, sent_result.count>>
            /\ TopInsights(Reordered(p)) = sent_result.items

\* the symbol of every row, in row order
SymbolColumn == [i \in DOMAIN self_holdings |-> self_holdings[i].Symbol]

NoSharedSymbol ==
    \A i, j \in DOMAIN SymbolColumn : SymbolColumn[i] = SymbolColumn[j] => i = j

\* a call of add_position for a symbol that, upper-cased, is held returns
\* False and changes neither the holdings nor portfolio.json
DuplicateAddRefused ==
    (last_call'.op = "add"
        /\ \E i \in DOMAIN self_holdings :
             self_holdings[i].Symbol = UpperCase[last_call'.symbol])
    => /\ last_call'.result = FALSE
       /\ self_holdings' = self_holdings
       /\ saved_file' = saved_file

\* C26: no two holdings share a symbol, and add_position for a symbol that is
\* held already (compared after upper-casing) returns False and leaves the
\* holdings and the saved file unchanged.
C26_OneHoldingPerSymbol == []NoSharedSymbol /\ [][DuplicateAddRefused]_vars

\* C26 witness: add_position("aapl", ...) refused while AAPL is held.
C26_Witness ==
    /\ last_call.op = "add"
    /\ last_call.symbol = "aapl"
    /\ "AAPL" \in {last_call.before[i].Symbol : i \in DOMAIN last_call.before}
    /\ last_call.result = FALSE
    /\ Len(self_holdings) = 2

\* C27: after a call of add_position or remove_position that returned False
\* the holdings are what they were before the call, and the holdings and the
\* file saved last never disagree.
C27_FalseMeansUnchanged ==
    /\ (last_call.op # "none" /\ last_call.result = FALSE) =>
         self_holdings = last_call.before
    /\ self_holdings = saved_file

\* the last two calls were add_position(s, shares, price) with numbers, for
\* a symbol s not held in any letter case, and then remove_position(s), and
\* every save they made went through
AddedThenRemoved ==
    /\ prev_call.op = "add"
    /\ prev_call.save = "ok"
    /\ last_call.op = "remove"
    /\ last_call.symbol = prev_call.symbol
    /\ last_call.save # "fail"

\* C28: add_position(s, shares, price) for a symbol s of any letter case
\* that is not held, followed by remove_position(s), returns True both times
\* and restores the holdings.
C28_AddThenRemoveRestores ==
    AddedThenRemoved =>
        /\ prev_call.result = TRUE
        /\ last_call.result = TRUE
        /\ self_holdings = prev_call.before

\* the same for the symbols that are upper case already
AddThenRemoveRestoresUpper ==
    (AddedThenRemoved /\ UpperCase[last_call.symbol] = last_call.symbol) =>
        /\ prev_call.result = TRUE
        /\ last_call.result = TRUE
        /\ self_holdings = prev_call.before

====
